---- MODULE Spec2Model ----
(***************************************************************************)
(* A model of hls-vod-too's on-demand transcoding engine.                  *)
(*                                                                         *)
(* Part I   MediaBackend (src/src/MediaBackend.ts): the per-quality state  *)
(*          machine: segmentStatus, encoderHeads, clients, the debounced   *)
(*          recalculate, getSegment, removeClient and destruct.            *)
(* Part II  LruCacheMapForAsync (src/src/Utils.ts).                        *)
(*                                                                         *)
(* Granularity.  Node runs one event-loop task at a time and drains the    *)
(* microtask queue before the next task.  An action of Part I is one task  *)
(* (an HTTP request, a stdout line, a process exit, a timer) together with *)
(* every promise continuation it makes runnable.  A suspension that needs  *)
(* another task to end (the exit of a killed process, a later segment) is  *)
(* kept in the state.                                                      *)
(***************************************************************************)
EXTENDS Integers, Sequences, FiniteSets, TLC

\* ------------------------------------------------------------------ bounds
NumSegments == 4        \* breakpoints.length - 1
MaxStarts == 3          \* encoder processes spawned in one behaviour
MaxCalls == 3           \* getSegment and removeClient calls in one behaviour
MaxRequests == 2        \* segment requests followed to their answer at the same time
ClientIds == {"a", "b"}
cacheSize == 2          \* capacity of the LRU map
MaxConstructions == 3   \* constructor runs in one behaviour
MaxDebouncedCalls == 4  \* calls of a debounced function in one behaviour
maxClientNumber == 2    \* Context.maxClientNumber
MaxIFrames == 3         \* length of the I-frame list given to convertToSegments
MaxLookups == 3         \* getBackend calls that start a lookup in one behaviour
RouterClients == {"a", "b", "c", "d"}
\* The files and quality levels asked for: one other quality, one other file.
Targets == {[file |-> "f", quality |-> "lo"], [file |-> "f", quality |-> "hi"],
            [file |-> "g", quality |-> "lo"]}
LruKeys == {"x", "y", "z"}

\* ------------------------------------------------------- program constants
EMPTY == 0
DONE == 255
videoMinBufferLength == 2
videoMaxBufferLength == videoMinBufferLength * 2

Segments == 0 .. (NumSegments - 1)
Pids == 1 .. MaxStarts
NoProcess == 0          \* client.transcoder === undefined

\* breakpoints[i]: segments of one time unit each.
breakpoints(i) == i

Min(S) == CHOOSE x \in S : \A y \in S : x <= y

VARIABLES
    segmentStatus,   \* Uint8Array: EMPTY, DONE or an encoder id
    encoderHeads,    \* Map<SubProcessInvocation, {head, id}>, keyed by pid
    process,         \* per live encoder process: endAt, next index it emits, killed
    nextPid,         \* number of processes spawned so far, plus one
    clients,         \* Map<clientId, {head, transcoder, deleted}>
    lastAssignedId,
    listeners,       \* once-listeners of encodingDoneEmitter: requests waiting for a segment
    awaiting,        \* getSegment calls suspended at `await this.onGetSegment(...)`
    removal,         \* removeClient calls: waiting for recalculate, or their timer armed
    recalc,          \* the in-flight run of the recalculate body (asyncDebounce's inProgress)
    queued,          \* asyncDebounce's nextCall is set
    destruct,        \* position of destruct()
    responses,       \* HTTP responses sent by the last step
    calls,           \* getSegment and removeClient calls so far
    recalcSettled,   \* the last step completed a run of recalculate and left none in flight
    handling,        \* the followed segment request the last step handled: client, seg
    asserted         \* the assertions of startTranscode that failed in the last step

backendVars == <<segmentStatus, encoderHeads, process, nextPid, clients, lastAssignedId,
                 listeners, awaiting, removal, recalc, queued, destruct, responses,
                 calls, recalcSettled, handling, asserted>>

\* Part II: LruCacheMapForAsync.  A promise of a value is named by the number
\* of its constructor run, a promise of a destruction by that of its run.
VARIABLES
    cache,           \* Map<K, Promise<V>> in insertion order: constructor runs
    destructions,    \* Map<K, Promise<D>>: key -> destructor run, 0 for no entry
    ctorRuns,        \* every `info` promise made by get: key, state, the destruction it follows
    dtorRuns         \* every `destruction` promise made by delete: key, state, the `info` it follows

lruVars == <<cache, destructions, ctorRuns, dtorRuns>>

\* Observers of the calls of get: what a reference LRU list would hold.
VARIABLES
    recency,         \* the keys get was called with, in the order of their last get
    got              \* the get of the last step: its key and the promise it returned

lruObservers == <<recency, got>>

\* Part III: asyncDebounce, g = asyncDebounce(f), on its own.  An invocation
\* of f is named by its number; the promise of invocation n after its
\* `finally` is [kind |-> "run", of |-> n], the promise
\* `inProgress.then(debounced)` made while n was in flight is
\* [kind |-> "next", of |-> n].
VARIABLES
    inProgress,      \* the invocation whose promise is in inProgress, 0 for null
    nextCall,        \* the invocation whose follow-up promise is in nextCall, 0 for null
    thenDue,         \* the invocation whose `then(debounced)` callback is queued, 0 for none
    fRuns,           \* the invocations of f: "running", "fulfilled" or "rejected"
    adopted,         \* invocation n -> the promise its follow-up promise was resolved with
    gCalls           \* the calls of g: the invocation in flight at the call, the promise returned

debounceVars == <<inProgress, nextCall, thenDue, fRuns, adopted, gCalls>>

\* Part IV: the client router of HlsVod.  A lookup promise is named by its
\* number; it is fulfilled with the backend of its file and quality.
VARIABLES
    clientTracker,   \* Map<clientId, Promise<MediaBackend>> in insertion order: client, lookup
    lookups,         \* the lookup promises: file, quality, "pending"/"fulfilled"/"rejected"
    thens,           \* callbacks of line 92 waiting for a pending lookup
    removing,        \* HlsVod.removeClient calls waiting at line 109
    removeClientCalls,  \* the backend.removeClient calls of the last step: file, quality, client, line
    asked,           \* the getBackend call of the last step, and whether it threw
    unhandled        \* the promises the last step left rejected with no handler: line, client

routerVars == <<clientTracker, lookups, thens, removing, removeClientCalls, asked,
                unhandled>>

\* Part V: MediaInfo.convertToSegments, a pure function.  Times are exact
\* rationals, held as integers in units of 1/Scale second.
VARIABLES
    rawTimeList,        \* the I-frame timestamps given
    duration,           \* the duration given
    segmentLength,      \* the target segment length given
    segmentOffset,      \* the tolerance given
    loopTrace,          \* lastTime and segmentStartTimes after each candidate of the loop
    segmentStartTimes   \* the array returned, <<>> before the call

segmentVars == <<rawTimeList, duration, segmentLength, segmentOffset, loopTrace,
                 segmentStartTimes>>

\* Part VI: one media descriptor (VideoInfo or AudioInfo) behind the router.
VARIABLES
    media,            \* the descriptor: type "V" or "A", resolution = min(width, height)
    qualityLevels,    \* Map<name, QualityLevel> in insertion order: preset, backend (0: null);
                      \* for an AudioInfo its one backend, under audioPreset
    backendsMade,     \* MediaBackend instances constructed
    returned,         \* the last call of getBackendByQualityLevel and what it gave
    masterManifest    \* the stream entries of the last master manifest: name, bandwidth

mediaVars == <<media, qualityLevels, backendsMade, returned, masterManifest>>

\* Part VII: a variant manifest and the segment requests made from it.
VARIABLES
    manifestSegments,  \* breakpoints.length - 1 of the backend
    variantManifest,   \* the index strings of the segment URLs of the manifest, in order
    parsed             \* the last URL asked for, and the segment index getSegment made of it

manifestVars == <<manifestSegments, variantManifest, parsed>>

\* Part VIII: the output directories of the media descriptors.
VARIABLES
    descriptors,   \* the live descriptors: (type, relPath) key -> outDir
    disk           \* the segment files on disk: the directory and the descriptor that wrote it

dirVars == <<descriptors, disk>>

\* Part IX: one call of startTranscode on a backend of any length.
VARIABLES
    startCase,     \* the backend the call finds, and startAt
    transcode      \* what the call did

startVars == <<startCase, transcode>>

\* Part X: one line of an encoder's output on a backend of its own.
VARIABLES
    lineCase,      \* the backend the line handler finds, and the index printed
    lineDone       \* what the handler did

lineVars == <<lineCase, lineDone>>

\* Part XI: the descriptor of the backend of Part I.
VARIABLES
    outDirRemoved  \* the descriptor's destruct has removed the output directory

descriptorVars == <<outDirRemoved>>

laterVars == <<debounceVars, routerVars, segmentVars, mediaVars, manifestVars, dirVars, startVars, lineVars, descriptorVars>>

otherVars == <<lruObservers, laterVars>>

vars == <<backendVars, lruVars, otherVars>>

NoRequest == [client |-> "", seg |-> -1]

IdleRecalc == [state |-> "idle", kills |-> {}, unresolved |-> <<>>]

\* The state as one record, threaded through the handlers of a step.
Current ==
    [segmentStatus |-> segmentStatus, encoderHeads |-> encoderHeads, process |-> process,
     nextPid |-> nextPid, clients |-> clients, lastAssignedId |-> lastAssignedId,
     listeners |-> listeners, awaiting |-> awaiting, removal |-> removal,
     recalc |-> recalc, queued |-> queued, destruct |-> destruct,
     responses |-> {}, calls |-> calls, recalcSettled |-> FALSE, threw |-> FALSE,
     handling |-> NoRequest, asserted |-> {}]

\* The step ends in state st.  A step that would spawn more than MaxStarts
\* processes is cut off.
Commit(st) ==
    /\ st.nextPid <= MaxStarts + 1
    /\ calls' = st.calls
    /\ segmentStatus' = st.segmentStatus
    /\ encoderHeads' = st.encoderHeads
    /\ process' = st.process
    /\ nextPid' = st.nextPid
    /\ clients' = st.clients
    /\ lastAssignedId' = st.lastAssignedId
    /\ listeners' = st.listeners
    /\ awaiting' = st.awaiting
    /\ removal' = st.removal
    /\ recalc' = st.recalc
    /\ queued' = st.queued
    /\ destruct' = st.destruct
    /\ asserted' = st.asserted
    /\ responses' = st.responses
    /\ recalcSettled' = st.recalcSettled
    /\ handling' = st.handling
    /\ UNCHANGED <<lruVars, otherVars>>

\* A map without one key.
Without(f, k) == [x \in (DOMAIN f) \ {k} |-> f[x]]

\* subProcess.kill(): the signal is sent; the process exits in a later task.
Kill(st, ps) ==
    [st EXCEPT !.process = [p \in DOMAIN st.process |->
        IF p \in ps THEN [st.process[p] EXCEPT !.killed = TRUE] ELSE st.process[p]]]

\* ------------------------------------------------------ findNextAvailableId
\* As IdAttempt, but over 251 residues: 253 is never tried.
IdAttempt_Short(last, i) == ((last + i) % 251) + 2

IdAttempt(last, i) == ((last + i) % 252) + 2

IdInUse(st, attempt) ==
    \/ \E s \in DOMAIN st.segmentStatus : st.segmentStatus[s] = attempt
    \/ \E p \in DOMAIN st.encoderHeads : st.encoderHeads[p].id = attempt

\* The loop of lines 65-76 from i on.
FirstUsableId(st, i) ==
    LET usable(j) == ~IdInUse(st, IdAttempt(st.lastAssignedId, j))
        first == CHOOSE j \in i .. 251 :
                    /\ j = 251 \/ usable(j)
                    /\ \A k \in i .. (j - 1) : ~usable(k)
    IN  IF first = 251 THEN 0 ELSE IdAttempt(st.lastAssignedId, first)

\* The first usable id, or 0 when the code throws 'No available Uint8 value.'
findNextAvailableId(st) == FirstUsableId(st, -1)

\* ------------------------------------------------------------ startTranscode
\* segmentStatus.length, which is breakpoints.length - 1 (line 58).
SegmentCount(st) == Cardinality(DOMAIN st.segmentStatus)

EndAt(st, startAt) ==
    LET taken == {i \in (startAt + 1) .. (SegmentCount(st) - 1) : st.segmentStatus[i] # EMPTY}
    IN  IF taken = {} THEN Min({SegmentCount(st), startAt + 512}) ELSE Min(taken)

\* The new process gets pid st.nextPid.  threw: an assertion failed (or no id
\* was free) and nothing was changed.
startTranscode(st, startAt) ==
    IF ~(startAt >= 0 /\ startAt < SegmentCount(st))
    THEN [st EXCEPT !.threw = TRUE, !.asserted = @ \cup {"Starting point wrong."}]
    ELSE IF st.segmentStatus[startAt] # EMPTY
    THEN [st EXCEPT !.threw = TRUE, !.asserted = @ \cup {"Segment already being encoded."}]
    ELSE IF findNextAvailableId(st) = 0
    THEN [st EXCEPT !.threw = TRUE]
    ELSE LET encoderId == findNextAvailableId(st)
             pid == st.nextPid
         IN  [st EXCEPT
                !.segmentStatus = [@ EXCEPT ![startAt] = encoderId],
                !.encoderHeads = (pid :> [head |-> startAt, id |-> encoderId]) @@ @,
                !.process = (pid :> [endAt |-> EndAt(st, startAt), next |-> startAt,
                                     killed |-> FALSE]) @@ @,
                !.lastAssignedId = encoderId,
                !.nextPid = pid + 1]

\* --------------------------------------------------------------- recalculate
\* Lines 212-231: the first segment of the client's mandatory buffer range
\* that is not DONE, or -1.
FirstToEncode(st, segmentIndex) ==
    LET missing == {i \in segmentIndex .. (NumSegments - 1) :
                      /\ breakpoints(i) - breakpoints(segmentIndex) < videoMinBufferLength
                      /\ st.segmentStatus[i] # DONE}
    IN  IF missing = {} THEN -1 ELSE Min(missing)

LiveClients(st) ==
    {c \in DOMAIN st.clients : ~st.clients[c].deleted /\ st.clients[c].head >= 0}

\* Lines 200-209: of the encoders with one head, the first in the map is kept.
EncoderAt(st, head) ==
    LET at == {p \in DOMAIN st.encoderHeads : st.encoderHeads[p].head = head}
    IN  IF at = {} THEN NoProcess ELSE Min(at)

DuplicateEncoders(st) ==
    {p \in DOMAIN st.encoderHeads : EncoderAt(st, st.encoderHeads[p].head) # p}

\* A fault: the second match looks one segment ahead instead of one behind.
MatchFor_Ahead(st, firstToEncode) ==
    IF EncoderAt(st, firstToEncode) # NoProcess THEN EncoderAt(st, firstToEncode)
    ELSE EncoderAt(st, firstToEncode + 1)

\* Lines 232-245: the encoder a playhead is matched with, or NoProcess.
MatchFor(st, firstToEncode) ==
    IF EncoderAt(st, firstToEncode) # NoProcess THEN EncoderAt(st, firstToEncode)
    ELSE EncoderAt(st, firstToEncode - 1)

RECURSIVE SortByFirst(_)
\* A fault: the comparison of the sort is reversed.
SortByFirst_Descending(S) ==
    IF S = {} THEN <<>>
    ELSE LET highest == CHOOSE x \in S : \A y \in S : x.firstToEncode >= y.firstToEncode
         IN  <<highest>> \o SortByFirst(S \ {highest})

\* Line 246: the unresolved playheads by firstToEncode, ascending.
SortByFirst(S) ==
    IF S = {} THEN <<>>
    ELSE LET lowest == CHOOSE x \in S : \A y \in S : x.firstToEncode <= y.firstToEncode
         IN  <<lowest>> \o SortByFirst(S \ {lowest})

\* Lines 198-255: the body of recalculate up to `await Promise.all(killOperations)`.
RecalcSync(st) ==
    LET playheads == {c \in LiveClients(st) : FirstToEncode(st, st.clients[c].head) >= 0}
        first(c) == FirstToEncode(st, st.clients[c].head)
        matched == {c \in playheads : MatchFor(st, first(c)) # NoProcess}
        used == {MatchFor(st, first(c)) : c \in matched}
        kept == (DOMAIN st.encoderHeads) \ DuplicateEncoders(st)
        kills == DuplicateEncoders(st) \cup (kept \ used)
        attached == [c \in DOMAIN st.clients |->
                       IF c \in matched
                       THEN [st.clients[c] EXCEPT !.transcoder = MatchFor(st, first(c))]
                       ELSE st.clients[c]]
        unresolved == SortByFirst({[client |-> c, firstToEncode |-> first(c)] :
                                     c \in playheads \ matched})
    IN  [Kill(st, kills) EXCEPT
           !.clients = attached,
           !.recalc = [state |-> "suspended", kills |-> kills, unresolved |-> unresolved]]

Attach(st, c, pid) ==
    [st EXCEPT !.clients = [x \in DOMAIN st.clients |->
        IF x = c THEN [st.clients[x] EXCEPT !.transcoder = pid] ELSE st.clients[x]]]

\* Lines 257-267: the loop after the await, over the playheads recorded before it.
RECURSIVE StartUnresolved(_, _, _)
StartUnresolved(st, list, lastStarted) ==
    IF list = <<>> THEN st
    ELSE LET current == Head(list)
         IN  IF /\ lastStarted.process # NoProcess
                /\ \/ lastStarted.index = current.firstToEncode
                   \/ lastStarted.index = current.firstToEncode - 1
             THEN StartUnresolved(Attach(st, current.client, lastStarted.process),
                                  Tail(list), lastStarted)
             ELSE LET started == startTranscode(st, current.firstToEncode)
                  IN  IF started.threw THEN started
                      ELSE StartUnresolved(Attach(started, current.client, st.nextPid),
                                           Tail(list),
                                           [index |-> current.firstToEncode,
                                            process |-> st.nextPid])

\* getSegment after `await this.onGetSegment(...)` (lines 314-327): the file
\* is sent if it was ready when the request arrived, else the request listens.
\* A rejected recalculate is answered 500 by the route's catch.
ResumeRequests(st, done, threw) ==
    [st EXCEPT
       !.awaiting = @ \ done,
       !.listeners = IF threw THEN @
                     ELSE @ \cup {[client |-> r.client, seg |-> r.seg] :
                                    r \in {x \in done : ~x.fileReady}},
       !.responses = @ \cup
            (IF threw THEN {[client |-> r.client, seg |-> r.seg, code |-> 500] : r \in done}
             ELSE {[client |-> r.client, seg |-> r.seg, code |-> 200] :
                     r \in {x \in done : x.fileReady}})]

\* asyncDebounce, when the in-flight run ends: both slots are cleared, the
\* callers that awaited this run go on, and the queued call (a `then` of the
\* in-flight promise, so only after success) starts the next run.
RECURSIVE Settle(_)
FinishRun(st, threw) ==
    LET waiters == {r \in st.awaiting : threw \/ r.on = "cur"}
        s1 == ResumeRequests(st, waiters, threw)
        s2 == [s1 EXCEPT
                 !.awaiting = {[r EXCEPT !.on = "cur"] : r \in @},
                 !.removal = [c \in ClientIds |->
                     CASE @[c] = "cur" -> IF threw THEN "none" ELSE "timer"
                       [] @[c] = "next" -> IF threw THEN "none" ELSE "cur"
                       [] OTHER -> @[c]],
                 !.recalc = IdleRecalc,
                 !.queued = FALSE,
                 !.threw = FALSE,
                 !.recalcSettled = ~threw]
    IN  IF st.queued /\ ~threw THEN Settle(RecalcSync(s2)) ELSE s2

\* Whatever of recalculate the microtasks of this step can run: a run whose
\* kill operations have all resolved goes on after its await.
Settle(st) ==
    IF st.recalc.state = "suspended" /\ st.recalc.kills = {}
    THEN LET after == StartUnresolved(st, st.recalc.unresolved,
                                      [index |-> -1, process |-> NoProcess])
         IN  FinishRun(after, after.threw)
    ELSE [st EXCEPT !.recalcSettled = FALSE]

\* A call of the debounced recalculate (Utils.ts 68-79): run the body now, or
\* queue one follow-up.  RecalcTag is the promise the caller gets.
RecalcTag(st) == IF st.recalc.state = "idle" THEN "cur" ELSE "next"

CallRecalculate(st) ==
    IF st.recalc.state = "idle" THEN RecalcSync(st) ELSE [st EXCEPT !.queued = TRUE]

\* ------------------------------------------------------------------- actions
BackendInit ==
    /\ segmentStatus = [i \in Segments |-> EMPTY]
    /\ encoderHeads = <<>>
    /\ process = <<>>
    /\ nextPid = 1
    /\ clients = <<>>
    /\ lastAssignedId = 1
    /\ listeners = {}
    /\ awaiting = {}
    /\ removal = [c \in ClientIds |-> "none"]
    /\ recalc = IdleRecalc
    /\ queued = FALSE
    /\ destruct = [state |-> "none", current |-> NoProcess]
    /\ responses = {}
    /\ calls = 0
    /\ recalcSettled = FALSE
    /\ asserted = {}
    /\ handling = NoRequest

LruInit ==
    /\ cache = <<>>
    /\ destructions = [k \in LruKeys |-> 0]
    /\ ctorRuns = <<>>
    /\ dtorRuns = <<>>

OtherInit ==
    /\ recency = <<>>
    /\ got = [key |-> "", info |-> 0]

NoPromise == [kind |-> "none", of |-> 0]

DebounceInit ==
    /\ inProgress = 0
    /\ nextCall = 0
    /\ thenDue = 0
    /\ fRuns = <<>>
    /\ adopted = [n \in 1 .. MaxDebouncedCalls |-> NoPromise]
    /\ gCalls = <<>>

NoAsk == [client |-> "", file |-> "", quality |-> "", threw |-> FALSE]

RouterInit ==
    /\ clientTracker = <<>>
    /\ lookups = <<>>
    /\ thens = {}
    /\ removing = {}
    /\ removeClientCalls = {}
    /\ asked = NoAsk
    /\ unhandled = {}

\* No call of convertToSegments.
SegmentsIdle ==
    /\ rawTimeList = <<>>
    /\ duration = 0
    /\ segmentLength = 0
    /\ segmentOffset = 0
    /\ loopTrace = <<>>
    /\ segmentStartTimes = <<>>

\* No media descriptor.
MediaIdle ==
    /\ media = [type |-> "", resolution |-> 0]
    /\ qualityLevels = <<>>
    /\ backendsMade = 0
    /\ returned = [level |-> "", kind |-> "", of |-> 0]
    /\ masterManifest = <<>>

\* No variant manifest.
ManifestIdle ==
    /\ manifestSegments = 0
    /\ variantManifest = <<>>
    /\ parsed = [url |-> 0, segmentIndex |-> -1, inRange |-> FALSE]

\* No descriptor, nothing on disk.
DirsIdle == descriptors = <<>> /\ disk = {}

\* The parts that a specification of one pure function leaves at rest.
\* No call of startTranscode on a backend of its own.
NoCase == [n |-> 0, done |-> {}, ids |-> {}, mark |-> 0, last |-> 1, startAt |-> 0]
NotStarted == [called |-> FALSE, threw |-> FALSE, id |-> 0, endAt |-> 0, written |-> {}]
StartIdle == startCase = NoCase /\ transcode = NotStarted

\* No line handled on a backend of its own.
NoLine == [status |-> <<>>, head |-> 0, endAt |-> 0, index |-> 0, clients |-> <<>>]
NotHandled == [handled |-> FALSE, status |-> <<>>, head |-> 0, killed |-> FALSE]
LineIdle == lineCase = NoLine /\ lineDone = NotHandled

PartsIdle ==
    /\ outDirRemoved = FALSE
    /\ BackendInit /\ LruInit /\ OtherInit /\ DebounceInit /\ RouterInit
    /\ DirsIdle /\ StartIdle

Init ==
    /\ PartsIdle /\ LineIdle
    /\ SegmentsIdle
    /\ MediaIdle
    /\ ManifestIdle

Called(st) == [st EXCEPT !.calls = @ + 1]

OpenRequests == Cardinality(listeners) + Cardinality(awaiting)

\* getSegment (lines 297-328) up to its first suspension, with the segment
\* number already parsed; i = NumSegments stands for an index out of range.
\* followed: the model follows the request to its answer.  A request that is
\* not followed acts on the backend in the same way, and its answer is not
\* recorded.
GetSegmentBody(st, c, i, followed) ==
    LET isNew == c \notin DOMAIN st.clients
        created == IF isNew
                   THEN [st EXCEPT !.clients = (c :> [head |-> -1, transcoder |-> NoProcess,
                                                      deleted |-> FALSE]) @@ @]
                   ELSE st
        answer(code) == IF followed THEN {[client |-> c, seg |-> i, code |-> code]} ELSE {}
    IN  IF ~isNew /\ st.clients[c].deleted
        THEN [st EXCEPT !.responses = answer(409)]
        ELSE IF i \notin Segments
        THEN [created EXCEPT !.responses = answer(500)]
        ELSE LET fileReady == st.segmentStatus[i] = DONE
                 moved == [created EXCEPT
                             !.clients = [x \in DOMAIN created.clients |->
                                 IF x = c THEN [created.clients[x] EXCEPT !.head = i]
                                 ELSE created.clients[x]],
                             !.awaiting = IF followed
                                          THEN @ \cup {[client |-> c, seg |-> i,
                                                        fileReady |-> fileReady,
                                                        on |-> RecalcTag(st)]}
                                          ELSE @]
             IN  Settle(CallRecalculate(moved))

\* A segment request whose answer is not followed.
GetSegment(c, i) ==
    /\ calls < MaxCalls
    /\ Commit(GetSegmentBody(Called(Current), c, i, FALSE))

\* A segment request followed to its answer.
SegmentRequest(c, i) ==
    /\ calls < MaxCalls
    /\ OpenRequests < MaxRequests
    /\ Commit(GetSegmentBody([Called(Current) EXCEPT !.handling = [client |-> c, seg |-> i]],
                              c, i, TRUE))

\* A fault: removeClient of a client without a record inserts no stub.
RemoveClientBody_NoStub(st, c) ==
    IF c \in DOMAIN st.clients /\ st.clients[c].deleted THEN st
    ELSE LET marked == [st EXCEPT
                 !.clients = [x \in DOMAIN st.clients |->
                                IF x = c THEN [st.clients[x] EXCEPT !.deleted = TRUE]
                                ELSE st.clients[x]],
                 !.removal = [@ EXCEPT ![c] = RecalcTag(st)]]
         IN  Settle(CallRecalculate(marked))

\* removeClient (lines 330-349) up to `await this.recalculate()`.
RemoveClientBody(st, c) ==
    IF c \in DOMAIN st.clients /\ st.clients[c].deleted THEN st
    ELSE LET marked == [st EXCEPT
                 !.clients = IF c \in DOMAIN st.clients
                             THEN [x \in DOMAIN st.clients |->
                                     IF x = c THEN [st.clients[x] EXCEPT !.deleted = TRUE]
                                     ELSE st.clients[x]]
                             ELSE (c :> [head |-> -1, transcoder |-> NoProcess,
                                         deleted |-> TRUE]) @@ @,
                 !.removal = [@ EXCEPT ![c] = RecalcTag(st)]]
         IN  Settle(CallRecalculate(marked))

RemoveClient(c) ==
    /\ calls < MaxCalls
    /\ Commit(RemoveClientBody(Called(Current), c))

\* The timer of removeClient (lines 346-348).
TimerBody(st, c) ==
    [st EXCEPT !.clients = Without(@, c), !.removal = [@ EXCEPT ![c] = "none"]]

RemovalTimer(c) ==
    /\ removal[c] = "timer"
    /\ Commit(TimerBody(Current, c))

\* The request of a listening getSegment is closed by its client (line 319).
CloseRequest(l) ==
    /\ l \in listeners
    /\ Commit([Current EXCEPT !.listeners = @ \ {l}])

\* encodingDoneEmitter.emit(index, null, tsFileName): every request listening
\* for the segment is sent the file.
EmitDone(st, index) ==
    LET served == {l \in st.listeners : l.seg = index}
    IN  [st EXCEPT
           !.listeners = @ \ served,
           !.responses = @ \cup {[client |-> l.client, seg |-> l.seg, code |-> 200] :
                                   l \in served}]

\* As LineBody, but the encoder goes on whether or not a client needs more.
LineBody_KeepsGoing(st, p, index) ==
    LET status == st.encoderHeads[p]
        endAt == st.process[p].endAt
        cleared == IF index # status.head /\ st.segmentStatus[status.head] = status.id
                   THEN [st.segmentStatus EXCEPT ![status.head] = EMPTY]
                   ELSE st.segmentStatus
        done == [cleared EXCEPT ![index] = DONE]
        s1 == EmitDone([st EXCEPT !.segmentStatus = done,
                                  !.process = [@ EXCEPT ![p].next = index + 1]], index)
    IN  IF index >= endAt - 1 THEN s1
        ELSE IF done[index + 1] # EMPTY THEN Kill(s1, {p})
        ELSE [s1 EXCEPT !.encoderHeads = [@ EXCEPT ![p].head = index + 1]]

\* As LineBody, but line 161 is left out: the segment printed is not marked
\* DONE.
LineBody_NoDone(st, p, index) ==
    LET status == st.encoderHeads[p]
        endAt == st.process[p].endAt
        cleared == IF index # status.head /\ st.segmentStatus[status.head] = status.id
                   THEN [st.segmentStatus EXCEPT ![status.head] = EMPTY]
                   ELSE st.segmentStatus
        done == cleared
        s1 == EmitDone([st EXCEPT !.segmentStatus = done,
                                  !.process = [@ EXCEPT ![p].next = index + 1]], index)
        needToContinue == \E c \in DOMAIN st.clients :
            /\ st.clients[c].transcoder = p
            /\ breakpoints(index + 1) - breakpoints(st.clients[c].head) < videoMaxBufferLength
    IN  IF index >= endAt - 1 THEN s1
        ELSE IF done[index + 1] # EMPTY THEN Kill(s1, {p})
        ELSE IF needToContinue
        THEN [s1 EXCEPT !.encoderHeads = [@ EXCEPT ![p].head = index + 1]]
        ELSE Kill(s1, {p})

\* A fault: a drifted line empties the head segment whatever it holds.
LineBody_ClearsAnyHead(st, p, index) ==
    LET status == st.encoderHeads[p]
        cleared == IF index # status.head
                   THEN [st.segmentStatus EXCEPT ![status.head] = EMPTY]
                   ELSE st.segmentStatus
        endAt == st.process[p].endAt
        done == [cleared EXCEPT ![index] = DONE]
        s1 == EmitDone([st EXCEPT !.segmentStatus = done,
                                  !.process = [@ EXCEPT ![p].next = index + 1]], index)
        needToContinue == \E c \in DOMAIN st.clients :
            /\ st.clients[c].transcoder = p
            /\ breakpoints(index + 1) - breakpoints(st.clients[c].head) < videoMaxBufferLength
    IN  IF index >= endAt - 1 THEN s1
        ELSE IF done[index + 1] # EMPTY THEN Kill(s1, {p})
        ELSE IF needToContinue
        THEN [s1 EXCEPT !.encoderHeads = [@ EXCEPT ![p].head = index + 1]]
        ELSE Kill(s1, {p})

\* The stdout line handler (lines 152-189) for the line naming segment index.
LineBody(st, p, index) ==
    LET status == st.encoderHeads[p]
        endAt == st.process[p].endAt
        cleared == IF index # status.head /\ st.segmentStatus[status.head] = status.id
                   THEN [st.segmentStatus EXCEPT ![status.head] = EMPTY]
                   ELSE st.segmentStatus
        done == [cleared EXCEPT ![index] = DONE]
        s1 == EmitDone([st EXCEPT !.segmentStatus = done,
                                  !.process = [@ EXCEPT ![p].next = index + 1]], index)
        needToContinue == \E c \in DOMAIN st.clients :
            /\ st.clients[c].transcoder = p
            /\ breakpoints(index + 1) - breakpoints(st.clients[c].head) < videoMaxBufferLength
    IN  IF index >= endAt - 1 THEN s1
        ELSE IF done[index + 1] # EMPTY THEN Kill(s1, {p})
        ELSE IF needToContinue
        THEN [s1 EXCEPT !.encoderHeads = [@ EXCEPT ![p].head = index + 1]]
        ELSE Kill(s1, {p})

\* ffmpeg completes its next segment and prints its file name.
EncoderLine(p) ==
    /\ p \in DOMAIN encoderHeads
    /\ process[p].next < process[p].endAt
    /\ Commit(LineBody(Current, p, process[p].next))

\* destruct after `await subProcess.kill()` for process p (lines 359-361): the
\* iteration over encoderHeads.keys() goes on with the next key in the map.
DestructContinue(st, p) ==
    IF st.destruct.state = "killing" /\ st.destruct.current = p
    THEN LET later == {q \in DOMAIN st.encoderHeads : q > p}
         IN  IF later = {} THEN [st EXCEPT !.destruct = [state |-> "done", current |-> NoProcess]]
             ELSE [Kill(st, {Min(later)}) EXCEPT
                     !.destruct = [state |-> "killing", current |-> Min(later)]]
    ELSE st

\* A fault: the exit handler fails the requests listening for a segment of the
\* encoder's range with an error event.
ExitBody_EmitError(st, p) ==
    LET status == st.encoderHeads[p]
        failed == {l \in st.listeners :
                     l.seg >= status.head /\ l.seg < st.process[p].endAt}
        handled == [st EXCEPT
            !.segmentStatus = IF @[status.head] = status.id
                              THEN [@ EXCEPT ![status.head] = EMPTY] ELSE @,
            !.encoderHeads = Without(@, p),
            !.process = Without(@, p),
            !.recalc = [@ EXCEPT !.kills = @ \ {p}],
            !.listeners = @ \ failed,
            !.responses = {[client |-> l.client, seg |-> l.seg, code |-> 500] :
                             l \in failed}]
    IN  Settle(DestructContinue(CallRecalculate(handled), p))

\* A fault: the exit handler leaves the encoder's id in segmentStatus.
ExitBody_NoReset(st, p) ==
    LET handled == [st EXCEPT
            !.encoderHeads = Without(@, p),
            !.process = Without(@, p),
            !.recalc = [@ EXCEPT !.kills = @ \ {p}]]
    IN  Settle(DestructContinue(CallRecalculate(handled), p))

\* The exit handler (lines 141-148), then what the exit lets go on: destruct's
\* loop and the run of recalculate that awaited the kill.
ExitBody(st, p) ==
    LET status == st.encoderHeads[p]
        handled == [st EXCEPT
            !.segmentStatus = IF @[status.head] = status.id
                              THEN [@ EXCEPT ![status.head] = EMPTY] ELSE @,
            !.encoderHeads = Without(@, p),
            !.process = Without(@, p),
            !.recalc = [@ EXCEPT !.kills = @ \ {p}]]
    IN  Settle(DestructContinue(CallRecalculate(handled), p))

\* An encoder process exits: killed, finished, failed or timed out.
EncoderExit(p) ==
    /\ p \in DOMAIN encoderHeads
    /\ Commit(ExitBody(Current, p))

\* destruct (lines 351-362) up to its first await.
DestructBody(st) ==
    LET failed == [st EXCEPT
            !.listeners = {},
            !.responses = {[client |-> l.client, seg |-> l.seg, code |-> 500] :
                             l \in st.listeners}]
        keys == DOMAIN st.encoderHeads
    IN  IF keys = {} THEN [failed EXCEPT !.destruct = [state |-> "done", current |-> NoProcess]]
        ELSE [Kill(failed, {Min(keys)}) EXCEPT
                !.destruct = [state |-> "killing", current |-> Min(keys)]]

Destruct ==
    /\ destruct.state = "none"
    /\ Commit(DestructBody(Current))

\* The backend without its observers: no request is followed, no destruct.
Core ==
    \/ \E c \in ClientIds, i \in 0 .. NumSegments : GetSegment(c, i)
    \/ \E c \in ClientIds : RemoveClient(c)
    \/ \E c \in ClientIds : RemovalTimer(c)
    \/ \E p \in Pids : EncoderLine(p)
    \/ \E p \in Pids : EncoderExit(p)

Next == Core

Spec == Init /\ [][Next]_vars

\* The backend with every segment request followed to its answer.
NextRequests ==
    \/ \E c \in ClientIds : RemoveClient(c)
    \/ \E c \in ClientIds : RemovalTimer(c)
    \/ \E p \in Pids : EncoderLine(p)
    \/ \E p \in Pids : EncoderExit(p)
    \/ \E c \in ClientIds, i \in 0 .. NumSegments : SegmentRequest(c, i)
    \/ \E l \in listeners : CloseRequest(l)

SpecRequests == Init /\ [][NextRequests]_vars

\* The backend that is destructed at some moment.
NextDestruct ==
    \/ NextRequests
    \/ Destruct

SpecDestruct == Init /\ [][NextDestruct]_vars

\* ======================================================= LruCacheMapForAsync
NoGet == [key |-> "", info |-> 0]

LruCurrent ==
    [cache |-> cache, destructions |-> destructions, ctorRuns |-> ctorRuns,
     dtorRuns |-> dtorRuns, recency |-> recency, got |-> NoGet]

LruCommit(m) ==
    /\ Len(m.ctorRuns) <= MaxConstructions
    /\ cache' = m.cache
    /\ destructions' = m.destructions
    /\ ctorRuns' = m.ctorRuns
    /\ dtorRuns' = m.dtorRuns
    /\ recency' = m.recency
    /\ got' = m.got
    /\ UNCHANGED <<backendVars, laterVars>>

Settled(state) == state \in {"fulfilled", "rejected"}

\* this.cache.get(key): the constructor run cached for the key, or 0.
Cached(m, key) ==
    LET at == {i \in 1 .. Len(m.cache) : m.ctorRuns[m.cache[i]].key = key}
    IN  IF at = {} THEN 0 ELSE m.cache[Min(at)]

\* this.cache.delete(key).
Uncache(m, key) ==
    [m EXCEPT !.cache = SelectSeq(@, LAMBDA n : m.ctorRuns[n].key # key)]

\* The destruction `info.then((info) => this.asyncDestructor(info, key))` of
\* line 110 for the promise info, as it stands when created: it runs the
\* destructor with the value info is fulfilled with, and is rejected without
\* running it when info is rejected.  arg is the value handed to the
\* destructor, 0 while it has not been called.
Destruction(m, key, info) ==
    LET run == m.ctorRuns[info]
    IN  [key |-> key, of |-> info,
         state |-> CASE run.state = "fulfilled" -> "running"
                     [] run.state = "rejected" -> "rejected"
                     [] OTHER -> "chained",
         arg |-> IF run.state = "fulfilled" THEN run.value ELSE 0]

\* A fault: delete leaves the entry in the cache.
LruDeleteBody_KeepCached(m, key) ==
    LET info == Cached(m, key)
    IN  IF info = 0 THEN m
        ELSE [m EXCEPT
                !.dtorRuns = Append(@, Destruction(m, key, info)),
                !.destructions = [@ EXCEPT ![key] = Len(m.dtorRuns) + 1]]

\* delete (lines 105-115).
LruDeleteBody(m, key) ==
    LET info == Cached(m, key)
    IN  IF info = 0 THEN m
        ELSE [Uncache(m, key) EXCEPT
                !.dtorRuns = Append(@, Destruction(m, key, info)),
                !.destructions = [@ EXCEPT ![key] = Len(m.dtorRuns) + 1]]

\* A fault: set evicts only when the cache is already over its capacity.
LruSet_Late(m, key, info) ==
    LET evicted == IF Len(m.cache) > cacheSize
                   THEN LruDeleteBody(m, m.ctorRuns[Head(m.cache)].key)
                   ELSE m
    IN  [evicted EXCEPT !.cache = Append(Uncache(evicted, key).cache, info)]

\* set (lines 98-103).
LruSet(m, key, info) ==
    LET evicted == IF Len(m.cache) >= cacheSize
                   THEN LruDeleteBody(m, m.ctorRuns[Head(m.cache)].key)
                   ELSE m
    IN  [evicted EXCEPT !.cache = Append(Uncache(evicted, key).cache, info)]

\* A fault: get of a cached key leaves the key at its place in the cache.
LruGetBody_NoTouch(m, key) ==
    LET info == Cached(m, key)
        destruction == m.destructions[key]
        new == Len(m.ctorRuns) + 1
        state == IF destruction # 0 /\ ~Settled(m.dtorRuns[destruction].state)
                 THEN "chained" ELSE "running"
        made == [m EXCEPT !.ctorRuns = Append(@, [key |-> key, state |-> state,
                                                  after |-> destruction,
                                                  value |-> 0])]
    IN  IF info = 0 THEN LruSet(made, key, new) ELSE m

\* A fault: get calls the constructor without looking at this.destructions.
LruGetBody_NoWait(m, key) ==
    LET info == Cached(m, key)
        new == Len(m.ctorRuns) + 1
        made == [m EXCEPT !.ctorRuns = Append(@, [key |-> key, state |-> "running",
                                                  after |-> 0, value |-> 0])]
    IN  IF info = 0 THEN LruSet(made, key, new)
        ELSE [Uncache(m, key) EXCEPT !.cache = Append(@, info)]

\* get (lines 117-134).  The constructor runs at once, or as the `then` of the
\* pending destruction of the key.  value is what the constructor run
\* produces, 0 until it is fulfilled.
LruGetBody(m, key) ==
    LET info == Cached(m, key)
        destruction == m.destructions[key]
        new == Len(m.ctorRuns) + 1
        state == IF destruction # 0 /\ ~Settled(m.dtorRuns[destruction].state)
                 THEN "chained" ELSE "running"
        made == [m EXCEPT !.ctorRuns = Append(@, [key |-> key, state |-> state,
                                                  after |-> destruction,
                                                  value |-> 0])]
    IN  IF info = 0 THEN LruSet(made, key, new)
        ELSE [Uncache(m, key) EXCEPT !.cache = Append(@, info)]

\* The destruction d is settled: the constructor chained to it runs.
AfterDestruction(m, d) ==
    [m EXCEPT !.ctorRuns = [n \in DOMAIN @ |->
        IF @[n].state = "chained" /\ @[n].after = d
        THEN [@[n] EXCEPT !.state = "running"] ELSE @[n]]]

\* A fault: the catch of get removes the key whatever promise the cache holds.
CtorEndBody_AnyPromise(m, n, ok) ==
    LET key == m.ctorRuns[n].key
        ended == [m EXCEPT !.ctorRuns[n].state = IF ok THEN "fulfilled" ELSE "rejected",
                           !.ctorRuns[n].value = IF ok THEN n ELSE 0]
        caught == IF ~ok THEN Uncache(ended, key) ELSE ended
        chained == {d \in DOMAIN m.dtorRuns :
                      m.dtorRuns[d].of = n /\ m.dtorRuns[d].state = "chained"}
        passed == [caught EXCEPT !.dtorRuns = [d \in DOMAIN @ |->
                     IF d \in chained
                     THEN [@[d] EXCEPT !.state = IF ok THEN "running" ELSE "rejected",
                                       !.arg = ended.ctorRuns[n].value]
                     ELSE @[d]]]
    IN  IF ok \/ chained = {} THEN passed
        ELSE AfterDestruction(passed, CHOOSE d \in chained : TRUE)

\* The constructor run n ends; run n produces the value n.  On failure the
\* catch of get (lines 124-128) removes the entry if the cache still holds this
\* promise; the destruction chained to the promise runs the destructor with
\* the value, or is rejected.
CtorEndBody(m, n, ok) ==
    LET key == m.ctorRuns[n].key
        ended == [m EXCEPT !.ctorRuns[n].state = IF ok THEN "fulfilled" ELSE "rejected",
                           !.ctorRuns[n].value = IF ok THEN n ELSE 0]
        caught == IF ~ok /\ Cached(m, key) = n THEN Uncache(ended, key) ELSE ended
        chained == {d \in DOMAIN m.dtorRuns :
                      m.dtorRuns[d].of = n /\ m.dtorRuns[d].state = "chained"}
        passed == [caught EXCEPT !.dtorRuns = [d \in DOMAIN @ |->
                     IF d \in chained
                     THEN [@[d] EXCEPT !.state = IF ok THEN "running" ELSE "rejected",
                                       !.arg = ended.ctorRuns[n].value]
                     ELSE @[d]]]
    IN  IF ok \/ chained = {} THEN passed
        ELSE AfterDestruction(passed, CHOOSE d \in chained : TRUE)

\* The destructor run d ends.
DtorEndBody(m, d, ok) ==
    AfterDestruction([m EXCEPT !.dtorRuns[d].state = IF ok THEN "fulfilled" ELSE "rejected"],
                     d)

LruGet(key) == LruCommit(LruGetBody(LruCurrent, key))

LruDelete(key) == LruCommit(LruDeleteBody(LruCurrent, key))

\* The promise get returns (line 133): the cached one, or the one it makes.
Returned(m, key) ==
    IF Cached(m, key) # 0 THEN Cached(m, key) ELSE Len(m.ctorRuns) + 1

\* get, observed: the key becomes the most recent of the reference list.
LruGetObserved(key) ==
    LruCommit([LruGetBody(LruCurrent, key) EXCEPT
                 !.recency = Append(SelectSeq(@, LAMBDA k : k # key), key),
                 !.got = [key |-> key, info |-> Returned(LruCurrent, key)]])

CtorEnd(n, ok) ==
    /\ n \in DOMAIN ctorRuns
    /\ ctorRuns[n].state = "running"
    /\ LruCommit(CtorEndBody(LruCurrent, n, ok))

DtorEnd(d, ok) ==
    /\ d \in DOMAIN dtorRuns
    /\ dtorRuns[d].state = "running"
    /\ LruCommit(DtorEndBody(LruCurrent, d, ok))

NextLru ==
    \/ \E key \in LruKeys : LruGet(key)
    \/ \E key \in LruKeys : LruDelete(key)
    \/ \E n \in 1 .. MaxConstructions, ok \in BOOLEAN : CtorEnd(n, ok)
    \/ \E d \in 1 .. MaxConstructions, ok \in BOOLEAN : DtorEnd(d, ok)

SpecLru == Init /\ [][NextLru]_vars

\* The map with every get observed.
NextLruOrder ==
    \/ \E key \in LruKeys : LruGetObserved(key)
    \/ \E key \in LruKeys : LruDelete(key)
    \/ \E n \in 1 .. MaxConstructions, ok \in BOOLEAN : CtorEnd(n, ok)
    \/ \E d \in 1 .. MaxConstructions, ok \in BOOLEAN : DtorEnd(d, ok)

SpecLruOrder == Init /\ [][NextLruOrder]_vars

\* ==================================================================== claims
EncoderIds == {encoderHeads[p].id : p \in DOMAIN encoderHeads}

\* C1: every segmentStatus[i] is EMPTY, DONE or the id of an encoder that is
\* in encoderHeads, and no two encoders in encoderHeads have the same id.
C1_StatusIsEmptyDoneOrLiveId ==
    /\ \A i \in Segments : segmentStatus[i] \in {EMPTY, DONE} \cup EncoderIds
    /\ \A p, q \in DOMAIN encoderHeads :
          p # q => encoderHeads[p].id # encoderHeads[q].id

\* An encoder has exited, two are in encoderHeads and a segment carries an id.
C1_Witness ==
    /\ nextPid = 4
    /\ Cardinality(DOMAIN encoderHeads) = 2
    /\ \E i \in Segments : segmentStatus[i] \in EncoderIds

\* C2: no two encoders in encoderHeads have the same head index.
C2_HeadsAreDistinct ==
    \A p, q \in DOMAIN encoderHeads :
        p # q => encoderHeads[p].head # encoderHeads[q].head

C4_NoListenerOnDoneSegment ==
    \A l \in listeners : segmentStatus[l.seg] # DONE

\* The requests listening for a not-yet-DONE segment in the range of encoder p.
WaitingOn(p) ==
    {l \in listeners : /\ segmentStatus[l.seg] # DONE
                       /\ l.seg >= encoderHeads[p].head
                       /\ l.seg < process[p].endAt}

\* The step is the exit of encoder p.
Exits(p) == p \in DOMAIN encoderHeads /\ p \notin DOMAIN encoderHeads'

Answered(l, code) == [client |-> l.client, seg |-> l.seg, code |-> code]

\* C5 as claimed: when an encoder exits, every request listening for a
\* not-yet-DONE segment of its range is answered 500.
C5_ExitFailsWaitingRequests ==
    [][\A p \in Pids : Exits(p) =>
          \A l \in WaitingOn(p) : Answered(l, 500) \in responses']_vars

\* C5, amended: the exit of an encoder sends no event to the requests that
\* listen for a segment, which stay registered; a listening request is failed
\* with 500 only by the step that calls destruct.
C5_ExitLeavesListeners ==
    [][/\ \A p \in Pids : Exits(p) => listeners \subseteq listeners'
       /\ \A l \in listeners :
             (l \notin listeners' /\ Answered(l, 500) \in responses')
                => (destruct.state = "none" /\ destruct'.state # "none")]_vars

\* Every encoder has exited while a request of a client, since removed,
\* listens for a segment none of them completed.
C5_Witness ==
    /\ nextPid > 1
    /\ encoderHeads = <<>>
    /\ destruct.state = "none"
    /\ \E l \in listeners :
          /\ segmentStatus[l.seg] = EMPTY
          /\ l.client \in DOMAIN clients
          /\ clients[l.client].deleted

\* C6: a client record marked deleted keeps its mark and its head until the
\* timer of removeClient deletes it, removeClient leaves such a record (a stub if there
\* was none) while it runs, and a segment request of a client whose record is
\* marked deleted is answered 409 and changes no client record.
C6_DeletedClientGets409 ==
    /\ [](\A c \in ClientIds :
            removal[c] # "none" => c \in DOMAIN clients /\ clients[c].deleted)
    /\ [][\A c \in DOMAIN clients : clients[c].deleted =>
            /\ c \in DOMAIN clients' =>
                  clients'[c].deleted /\ clients'[c].head = clients[c].head
            /\ c \notin DOMAIN clients' => removal[c] = "timer"
            /\ handling'.client = c =>
                  /\ responses' = {[client |-> c, seg |-> handling'.seg, code |-> 409]}
                  /\ clients' = clients
                  /\ awaiting' = awaiting
                  /\ listeners' = listeners]_vars

\* A segment request met the stub removeClient inserted and was answered 409
\* before the timer deleted the stub.
C6_Witness ==
    /\ handling # NoRequest
    /\ handling.client \in DOMAIN clients
    /\ clients[handling.client] = [head |-> -1, transcoder |-> NoProcess, deleted |-> TRUE]
    /\ removal[handling.client] # "none"
    /\ [client |-> handling.client, seg |-> handling.seg, code |-> 409] \in responses

\* C7: when destruct completes, no encoder of the backend is in encoderHeads.
C7_NoEncoderWhenDestructed ==
    [][(destruct.state # "done" /\ destruct'.state = "done")
          => encoderHeads' = <<>>]_vars

\* The constructor and the destructor runs of a key that are executing.
CtorRunning(key) ==
    {n \in DOMAIN ctorRuns : ctorRuns[n].key = key /\ ctorRuns[n].state = "running"}

DtorRunning(key) ==
    {d \in DOMAIN dtorRuns : dtorRuns[d].key = key /\ dtorRuns[d].state = "running"}

\* C8: for every key at most one constructor and at most one destructor run
\* at a time, and no constructor of the key runs while a destructor of the key
\* is running.
C8_OneRunPerKey ==
    \A key \in LruKeys :
        /\ Cardinality(CtorRunning(key)) <= 1
        /\ Cardinality(DtorRunning(key)) <= 1
        /\ CtorRunning(key) = {} \/ DtorRunning(key) = {}

\* get(key) was called while the destructor of the key's previous value runs:
\* the new constructor waits for it.
C8_Witness ==
    \E n \in DOMAIN ctorRuns :
        /\ ctorRuns[n].state = "chained"
        /\ dtorRuns[ctorRuns[n].after].state = "running"
        /\ dtorRuns[ctorRuns[n].after].key = ctorRuns[n].key

\* The destructor of d has been called.
Invoked(d) == dtorRuns[d].arg # 0

\* C9: a destructor is called with the value of the constructor run whose
\* promise delete took from the cache, a constructor run has at most one
\* destruction, and no destructor is called for a failed construction.
C9_DestructorGetsItsValue ==
    /\ \A d \in DOMAIN dtorRuns :
          /\ dtorRuns[d].state \in {"running", "fulfilled"} => Invoked(d)
          /\ Invoked(d) =>
                /\ ctorRuns[dtorRuns[d].of].state = "fulfilled"
                /\ ctorRuns[dtorRuns[d].of].key = dtorRuns[d].key
                /\ dtorRuns[d].arg = ctorRuns[dtorRuns[d].of].value
          /\ ctorRuns[dtorRuns[d].of].state = "rejected" => ~Invoked(d)
    /\ \A d, e \in DOMAIN dtorRuns : d # e => dtorRuns[d].of # dtorRuns[e].of

\* The second value of a key is being destructed after its first one was, and
\* the destruction of a failed construction was rejected without a call.
C9_Witness ==
    /\ \E d, e \in DOMAIN dtorRuns :
          /\ d < e
          /\ dtorRuns[d].key = dtorRuns[e].key
          /\ Invoked(d)
          /\ Invoked(e)
          /\ dtorRuns[d].arg # dtorRuns[e].arg
    /\ \E d \in DOMAIN dtorRuns :
          /\ ctorRuns[dtorRuns[d].of].state = "rejected"
          /\ dtorRuns[d].state = "rejected"

\* A step that calls the constructor of a key that was not cached, with the
\* cache full.
InsertIntoFull ==
    /\ Len(cache) = cacheSize
    /\ Len(ctorRuns') = Len(ctorRuns) + 1

\* C10: the cache never holds more than cacheSize keys, and inserting a new key
\* into a full cache starts exactly one destruction, of another key.
C10_CacheWithinCapacity ==
    /\ [](Len(cache) <= cacheSize)
    /\ [][InsertIntoFull =>
            /\ Len(dtorRuns') = Len(dtorRuns) + 1
            /\ dtorRuns'[Len(dtorRuns')].key # ctorRuns'[Len(ctorRuns')].key
            /\ dtorRuns'[Len(dtorRuns')].key = ctorRuns[Head(cache)].key
            /\ Len(cache') = cacheSize]_vars

\* A key was inserted into the full cache: the cache is full, holds the newest
\* constructor run, and the first key inserted is being destructed.
C10_Witness ==
    /\ Len(cache) = cacheSize
    /\ Len(ctorRuns) = cacheSize + 1
    /\ Len(dtorRuns) = 1
    /\ dtorRuns[1].of = 1
    /\ cache[Len(cache)] = Len(ctorRuns)
    /\ \A n \in 2 .. Len(ctorRuns) : ctorRuns[n].key # ctorRuns[1].key

\* ============================================================== asyncDebounce
DebounceCurrent ==
    [inProgress |-> inProgress, nextCall |-> nextCall, fRuns |-> fRuns, ret |-> NoPromise]

\* A fault: debounced calls the method whether or not a call is in progress.
debounced_Reentrant(d) ==
    [d EXCEPT !.fRuns = Append(@, "running"),
              !.inProgress = Len(d.fRuns) + 1,
              !.ret = [kind |-> "run", of |-> Len(d.fRuns) + 1]]

\* debounced (Utils.ts lines 68-79); ret is the promise it returns.
debounced(d) ==
    IF d.inProgress = 0
    THEN [d EXCEPT !.fRuns = Append(@, "running"),
                   !.inProgress = Len(d.fRuns) + 1,
                   !.ret = [kind |-> "run", of |-> Len(d.fRuns) + 1]]
    ELSE IF d.nextCall = 0
    THEN [d EXCEPT !.nextCall = d.inProgress,
                   !.ret = [kind |-> "next", of |-> d.inProgress]]
    ELSE [d EXCEPT !.ret = [kind |-> "next", of |-> d.nextCall]]

\* A call of g, at any moment, also between the `finally` of an invocation
\* and the `then` callback that follows it.
DebouncedCall ==
    /\ Len(gCalls) < MaxDebouncedCalls
    /\ LET d == debounced(DebounceCurrent)
       IN  /\ inProgress' = d.inProgress
           /\ nextCall' = d.nextCall
           /\ fRuns' = d.fRuns
           /\ gCalls' = Append(gCalls, [during |-> inProgress, promise |-> d.ret])
    /\ UNCHANGED <<thenDue, adopted>>
    /\ UNCHANGED <<backendVars, lruVars, lruObservers, routerVars, segmentVars, mediaVars, manifestVars, dirVars, startVars, lineVars, descriptorVars>>

\* The invocation of f in flight ends.  The `finally` of line 70 clears both
\* slots; the `then(debounced)` of line 76 is queued if the invocation was
\* fulfilled, and the follow-up promise is rejected if it was rejected.
MethodEnd(ok) ==
    /\ inProgress # 0
    /\ fRuns[inProgress] = "running"
    /\ thenDue = 0
    /\ fRuns' = [fRuns EXCEPT ![inProgress] = IF ok THEN "fulfilled" ELSE "rejected"]
    /\ thenDue' = IF ok /\ nextCall = inProgress THEN inProgress ELSE 0
    /\ inProgress' = 0
    /\ nextCall' = 0
    /\ UNCHANGED <<adopted, gCalls>>
    /\ UNCHANGED <<backendVars, lruVars, lruObservers, routerVars, segmentVars, mediaVars, manifestVars, dirVars, startVars, lineVars, descriptorVars>>

\* The queued `then(debounced)` callback runs.
ThenCallback ==
    /\ thenDue # 0
    /\ LET d == debounced(DebounceCurrent)
       IN  /\ inProgress' = d.inProgress
           /\ nextCall' = d.nextCall
           /\ fRuns' = d.fRuns
           /\ adopted' = [adopted EXCEPT ![thenDue] = d.ret]
    /\ thenDue' = 0
    /\ UNCHANGED gCalls
    /\ UNCHANGED <<backendVars, lruVars, lruObservers, routerVars, segmentVars, mediaVars, manifestVars, dirVars, startVars, lineVars, descriptorVars>>

NextDebounce ==
    \/ DebouncedCall
    \/ \E ok \in BOOLEAN : MethodEnd(ok)
    \/ ThenCallback

SpecDebounce == Init /\ [][NextDebounce]_vars

\* The invocation of f whose outcome a promise is settled with, 0 while the
\* promise is pending.
RECURSIVE SettledBy(_)
SettledBy(promise) ==
    CASE promise.kind = "run" ->
            IF fRuns[promise.of] = "running" THEN 0 ELSE promise.of
      [] promise.kind = "next" ->
            IF fRuns[promise.of] = "rejected" THEN promise.of
            ELSE SettledBy(adopted[promise.of])
      [] OTHER -> 0

\* The calls of g made while invocation n was in flight.
CallsDuring(n) == {c \in DOMAIN gCalls : gCalls[c].during = n}

\* C12: when an invocation of f during which g was called has ended, and the
\* callback queued by its end has run, a later invocation of f has started;
\* and a call made during an invocation is settled only with a later one.
C12_FollowUpAfterEnd ==
    \A n \in DOMAIN fRuns :
        CallsDuring(n) # {} =>
            /\ (fRuns[n] # "running" /\ thenDue # n) => Len(fRuns) > n
            /\ \A c \in CallsDuring(n) :
                  SettledBy(gCalls[c].promise) \in {0} \cup (n + 1 .. Len(fRuns))

\* C13: at most one invocation of f is in flight, and it is the one held in
\* inProgress.
C13_NeverReentered ==
    /\ Cardinality({n \in DOMAIN fRuns : fRuns[n] = "running"}) <= 1
    /\ \A n \in DOMAIN fRuns : fRuns[n] = "running" => inProgress = n

\* Two calls during the first invocation were collapsed into the second one,
\* which is in flight and has calls waiting for a third.
C13_Witness ==
    /\ Len(fRuns) = 2
    /\ fRuns[2] = "running"
    /\ Cardinality(CallsDuring(1)) >= 2
    /\ CallsDuring(2) # {}
    /\ nextCall = 2

\* ============================================================== HlsVod router
\* this.clientTracker.get(clientId): the lookup of the client, 0 for none.
Tracked(clientId) ==
    LET at == {i \in 1 .. Len(clientTracker) : clientTracker[i].client = clientId}
    IN  IF at = {} THEN 0 ELSE clientTracker[Min(at)].lookup

\* this.clientTracker.delete(clientId).
Untrack(tracker, clientId) == SelectSeq(tracker, LAMBDA e : e.client # clientId)

\* A fault: only the quality is compared.
Differs_QualityOnly(l, file, qualityLevel) == lookups[l].quality # qualityLevel

\* The test of line 93 on the backend lookup l is fulfilled with.
Differs(l, file, qualityLevel) ==
    lookups[l].quality # qualityLevel \/ lookups[l].file # file

\* backend.removeClient(clientId) on the backend of lookup l, called from the
\* given line of HlsVod.ts.
RemoveClientOn(l, clientId, line) ==
    [file |-> lookups[l].file, quality |-> lookups[l].quality, client |-> clientId,
     line |-> line]

\* A promise rejected with nothing to handle it: the promise of
\* `existing.then(...)` (line 92), which has no catch, or the promise of
\* HlsVod.removeClient when its await (line 109) throws, which the delete
\* route drops (lines 256-259).  stored: the call was made on an association
\* that had failed already.
Unhandled(line, clientId, stored) == [line |-> line, client |-> clientId, stored |-> stored]

\* The lookup gave no backend: it was rejected, or fulfilled with undefined.
Failed(state) == state \in {"rejected", "undefined"}

\* getBackend (lines 81-102).  For a new client with the tracker over
\* maxClientNumber, line 89 calls removeClient on victimValue, a Promise, which
\* has no such method: the call throws a TypeError after the victim's entry
\* was deleted, and no lookup is made.
getBackend(clientId, file, qualityLevel) ==
    LET existing == Tracked(clientId)
        deleted == Untrack(clientTracker, clientId)
        new == Len(lookups) + 1
        ask == [client |-> clientId, file |-> file, quality |-> qualityLevel, threw |-> FALSE]
    IN  IF existing = 0 /\ Len(deleted) > maxClientNumber
        THEN /\ clientTracker' = Tail(deleted)
             /\ asked' = [ask EXCEPT !.threw = TRUE]
             /\ removeClientCalls' = {}
             /\ unhandled' = {}
             /\ UNCHANGED <<lookups, thens>>
        ELSE /\ Len(lookups) < MaxLookups
             /\ lookups' = Append(lookups, [file |-> file, quality |-> qualityLevel,
                                            state |-> "pending"])
             /\ clientTracker' = Append(deleted, [client |-> clientId, lookup |-> new])
             /\ asked' = ask
             /\ thens' = IF existing # 0 /\ lookups[existing].state = "pending"
                         THEN thens \cup {[on |-> existing, client |-> clientId,
                                           file |-> file, quality |-> qualityLevel]}
                         ELSE thens
             /\ removeClientCalls' =
                    IF /\ existing # 0
                       /\ lookups[existing].state = "fulfilled"
                       /\ Differs(existing, file, qualityLevel)
                    THEN {RemoveClientOn(existing, clientId, 94)} ELSE {}
             /\ unhandled' = IF existing # 0 /\ Failed(lookups[existing].state)
                             THEN {Unhandled(92, clientId, TRUE)} ELSE {}

GetBackend(clientId, file, qualityLevel) ==
    /\ getBackend(clientId, file, qualityLevel)
    /\ UNCHANGED removing
    /\ UNCHANGED <<backendVars, lruVars, lruObservers, debounceVars, segmentVars, mediaVars, manifestVars, dirVars, startVars, lineVars, descriptorVars>>

\* HlsVod.removeClient (lines 104-116) up to its await, and past it when the
\* lookup of the client is settled.
RouterRemoveClient(clientId) ==
    LET l == Tracked(clientId)
        state == IF l = 0 THEN "none" ELSE lookups[l].state
    IN  /\ l # 0
        /\ removing' = IF state = "pending"
                       THEN removing \cup {[client |-> clientId, on |-> l]} ELSE removing
        /\ removeClientCalls' = IF state = "fulfilled"
                                THEN {RemoveClientOn(l, clientId, 114)} ELSE {}
        /\ clientTracker' = IF state = "fulfilled"
                            THEN Untrack(clientTracker, clientId) ELSE clientTracker
        /\ asked' = NoAsk
        /\ unhandled' = IF state = "rejected"
                        THEN {Unhandled(109, clientId, TRUE)} ELSE {}
        /\ UNCHANGED <<lookups, thens>>
        /\ UNCHANGED <<backendVars, lruVars, lruObservers, debounceVars, segmentVars, mediaVars, manifestVars, dirVars, startVars, lineVars, descriptorVars>>

\* The lookup l settles: "fulfilled" with a backend, "undefined" (fulfilled
\* with no backend) or "rejected".  The callbacks of line 92 and the
\* removeClient calls waiting at line 109 go on; without a backend they make
\* no call.
LookupSettles(l, state) ==
    /\ l \in DOMAIN lookups
    /\ lookups[l].state = "pending"
    /\ lookups' = [lookups EXCEPT ![l].state = state]
    /\ thens' = {t \in thens : t.on # l}
    /\ removing' = {r \in removing : r.on # l}
    /\ removeClientCalls' =
          IF state = "fulfilled"
          THEN {RemoveClientOn(l, t.client, 94) :
                   t \in {x \in thens : x.on = l /\ Differs(l, x.file, x.quality)}}
               \cup {RemoveClientOn(l, r.client, 114) : r \in {x \in removing : x.on = l}}
          ELSE {}
    /\ clientTracker' =
          IF state = "fulfilled"
          THEN SelectSeq(clientTracker,
                         LAMBDA e : ~\E r \in removing : r.on = l /\ r.client = e.client)
          ELSE clientTracker
    /\ unhandled' =
          IF Failed(state)
          THEN {Unhandled(92, t.client, FALSE) : t \in {x \in thens : x.on = l}}
               \cup (IF state = "rejected"
                     THEN {Unhandled(109, r.client, FALSE) : r \in {x \in removing : x.on = l}}
                     ELSE {})
          ELSE {}
    /\ asked' = NoAsk

LookupEnd(l, ok) ==
    /\ LookupSettles(l, IF ok THEN "fulfilled" ELSE "rejected")
    /\ UNCHANGED <<backendVars, lruVars, lruObservers, debounceVars, segmentVars, mediaVars, manifestVars, dirVars, startVars, lineVars, descriptorVars>>

NextRouter ==
    \/ \E c \in RouterClients, t \in Targets : GetBackend(c, t.file, t.quality)
    \/ \E c \in RouterClients : RouterRemoveClient(c)
    \/ \E l \in 1 .. MaxLookups, ok \in BOOLEAN : LookupEnd(l, ok)

SpecRouter == Init /\ [][NextRouter]_vars

\* The step is a getBackend call of a client without an association.
AsksAsNew == asked' # NoAsk /\ Tracked(asked'.client) = 0

\* C14: a getBackend call of a new client with maxClientNumber associations
\* in the tracker removes the oldest association, calls removeClient on the
\* evicted client's backend with the evicted client's id, and records the new
\* client's lookup.
C14_FullTrackerEvictsOldest ==
    [][(AsksAsNew /\ Len(clientTracker) = maxClientNumber) =>
          /\ \A i \in 1 .. Len(clientTracker') :
                clientTracker'[i].client # clientTracker[1].client
          /\ RemoveClientOn(clientTracker[1].lookup, clientTracker[1].client, 89)
                \in removeClientCalls'
          /\ ~asked'.threw
          /\ clientTracker'[Len(clientTracker')].client = asked'.client]_vars

\* C15: the tracker holds at most maxClientNumber associations.
C15_TrackerWithinCapacity == Len(clientTracker) <= maxClientNumber

\* The step is a getBackend call of a client whose lookup is fulfilled.
AsksAsKnown ==
    /\ asked' # NoAsk
    /\ Tracked(asked'.client) # 0
    /\ lookups[Tracked(asked'.client)].state = "fulfilled"

\* C16: a getBackend call of a client associated with a backend calls
\* removeClient on that backend, with the client's id, exactly when the file
\* or the quality asked for differs from the backend's; afterwards the tracker
\* has one entry for the client, the new lookup.  The same holds when the
\* callback had to wait for the lookup of the previous association.
C16_MovedClientIsRemoved ==
    /\ [][AsksAsKnown =>
            LET x == Tracked(asked'.client)
                differs == lookups[x].file # asked'.file \/ lookups[x].quality # asked'.quality
            IN  /\ removeClientCalls' = IF differs THEN {RemoveClientOn(x, asked'.client, 94)}
                                        ELSE {}
                /\ Cardinality({i \in 1 .. Len(clientTracker') :
                                   clientTracker'[i].client = asked'.client}) = 1
                /\ clientTracker'[Len(clientTracker')] =
                      [client |-> asked'.client, lookup |-> Len(lookups')]
                /\ lookups'[Len(lookups')] =
                      [file |-> asked'.file, quality |-> asked'.quality, state |-> "pending"]]_vars
    /\ [][\A t \in thens :
            (lookups[t.on].state = "pending" /\ lookups'[t.on].state = "fulfilled") =>
                (RemoveClientOn(t.on, t.client, 94) \in removeClientCalls'
                    <=> (lookups[t.on].file # t.file \/ lookups[t.on].quality # t.quality))]_vars

\* A client associated with a backend asked for another file in the same
\* quality, and removeClient was called on the backend it leaves.
C16_Witness ==
    /\ asked # NoAsk
    /\ \E call \in removeClientCalls :
          /\ call.client = asked.client
          /\ call.file # asked.file
          /\ call.quality = asked.quality
    /\ lookups[Tracked(asked.client)].file = asked.file

\* The keys in the cache, oldest entry first.
CachedKeys == [i \in 1 .. Len(cache) |-> ctorRuns[cache[i]].key]

\* The reference LRU list cut down to the keys that are cached.
ReferenceOrder ==
    SelectSeq(recency, LAMBDA k : \E i \in 1 .. Len(cache) : CachedKeys[i] = k)

\* C11: the cache holds its keys in the order of their last get; a get of a
\* cached key constructs nothing, returns the cached promise and puts it
\* last; a get that evicts destructs the cached key whose last get is oldest.
C11_LruOrder ==
    /\ [](CachedKeys = ReferenceOrder)
    /\ [][(got' # NoGet /\ Cached(LruCurrent, got'.key) # 0) =>
            /\ got'.info = Cached(LruCurrent, got'.key)
            /\ ctorRuns' = ctorRuns
            /\ dtorRuns' = dtorRuns
            /\ cache'[Len(cache')] = got'.info]_vars
    /\ [][(got' # NoGet /\ Len(dtorRuns') > Len(dtorRuns)) =>
            dtorRuns'[Len(dtorRuns')].key = Head(ReferenceOrder)]_vars

\* x, then y were constructed, x was got again, and the get of z evicted y.
C11_Witness ==
    /\ Len(ctorRuns) = 3
    /\ cache = <<1, 3>>
    /\ Len(dtorRuns) = 1
    /\ dtorRuns[1].of = 2
    /\ got = [key |-> ctorRuns[3].key, info |-> 3]
    /\ recency = <<ctorRuns[2].key, ctorRuns[1].key, ctorRuns[3].key>>


\* ================================================= MediaInfo.convertToSegments
\* One second.  Every quotient taken below is exact: the inputs are whole
\* seconds up to 51, a span is cut in at most 15 parts, and a part is halved
\* at most once; 720720 = 2 * lcm(1 .. 15).
Scale == 720720

\* The I-frame timestamps and durations tried, in seconds.
IFrameTimes == {1, 3, 6, 10, 20, 40}
Durations == {0, 5, 31, 51}

\* The (segmentLength, segmentOffset) pairs of tests/convertToSegments.test.ts:
\* (3.5, 1.25), (10, 5), (50, 1), (20, 19), (1, 0.5).
LengthOffsetPairs ==
    {<<7 * (Scale \div 2), 5 * (Scale \div 4)>>, <<10 * Scale, 5 * Scale>>,
     <<50 * Scale, Scale>>, <<20 * Scale, 19 * Scale>>, <<Scale, Scale \div 2>>}

IFrameLists ==
    UNION {[1 .. n -> {t * Scale : t \in IFrameTimes}] : n \in 0 .. MaxIFrames}

\* A fault: the quotient is rounded down.
numOfSegmentsNeeded_Floor(span, length) == span \div length

\* Math.ceil((time - lastTime) / segmentLength), for a positive span.
numOfSegmentsNeeded(span, length) == (span + length - 1) \div length

\* One turn of the loop (lines 54-72) on the candidate time.
Candidate(acc, time, length, offset) ==
    LET span == time - acc.lastTime
        num == numOfSegmentsNeeded(span, length)
        durationOfEach == span \div num
    IN  IF span < length - offset THEN acc
        ELSE IF span < length + offset
        THEN [lastTime |-> time, out |-> Append(acc.out, time)]
        ELSE [lastTime |-> time,
              out |-> acc.out \o [i \in 1 .. num - 1 |-> acc.lastTime + i * durationOfEach]
                              \o <<time>>]

\* The loop after its first k candidates of timeList (lines 50-73).
RECURSIVE LoopUpTo(_, _, _, _)
LoopUpTo(k, timeList, length, offset) ==
    IF k = 0 THEN [lastTime |-> 0, out |-> <<0>>]
    ELSE Candidate(LoopUpTo(k - 1, timeList, length, offset), timeList[k], length, offset)

\* Lines 75-83: the last element is dropped, and the last segment halved when
\* it is longer than the maximum.
FixUp(out, d, length, offset) ==
    IF Len(out) > 1
    THEN LET popped == SubSeq(out, 1, Len(out) - 1)
             lastSegmentLength == d - popped[Len(popped)]
         IN  IF lastSegmentLength > length + offset
             THEN Append(popped, d - lastSegmentLength \div 2)
             ELSE popped
    ELSE out

\* A fault: the array is returned as the loop left it.
convertToSegments_AsLooped(rawTimes, d, length, offset) ==
    LoopUpTo(Len(rawTimes) + 1, Append(rawTimes, d), length, offset).out

convertToSegments(rawTimes, d, length, offset) ==
    LET timeList == Append(rawTimes, d)
        looped == LoopUpTo(Len(timeList), timeList, length, offset)
    IN  Append(FixUp(looped.out, d, length, offset), d)

ConvertToSegments ==
    /\ segmentStartTimes = <<>>
    /\ segmentStartTimes' =
          convertToSegments(rawTimeList, duration, segmentLength, segmentOffset)
    /\ loopTrace' = [k \in 1 .. Len(rawTimeList) + 2 |->
                        LoopUpTo(k - 1, Append(rawTimeList, duration),
                                 segmentLength, segmentOffset)]
    /\ UNCHANGED <<rawTimeList, duration, segmentLength, segmentOffset>>
    /\ UNCHANGED <<backendVars, lruVars, lruObservers, debounceVars, routerVars, mediaVars, manifestVars, dirVars, startVars, lineVars, descriptorVars>>

InitSegments ==
    /\ PartsIdle /\ LineIdle
    /\ MediaIdle
    /\ ManifestIdle
    /\ rawTimeList \in IFrameLists
    /\ duration \in {d * Scale : d \in Durations}
    /\ \E pair \in LengthOffsetPairs : segmentLength = pair[1] /\ segmentOffset = pair[2]
    /\ loopTrace = <<>>
    /\ segmentStartTimes = <<>>

SpecSegments == InitSegments /\ [][ConvertToSegments]_vars

Converted == segmentStartTimes # <<>>

\* C17: every difference of consecutive elements of the output lies in
\* [segmentLength - segmentOffset, segmentLength + segmentOffset].
C17_SegmentsWithinTolerance ==
    Converted =>
        \A i \in 1 .. Len(segmentStartTimes) - 1 :
            /\ segmentStartTimes[i + 1] - segmentStartTimes[i] >= segmentLength - segmentOffset
            /\ segmentStartTimes[i + 1] - segmentStartTimes[i] <= segmentLength + segmentOffset

\* C18: the output starts with 0 and ends with the duration.
C18_FromZeroToDuration ==
    Converted =>
        /\ segmentStartTimes[1] = 0
        /\ segmentStartTimes[Len(segmentStartTimes)] = duration

\* The loop skipped the duration itself, so that the array it left does not
\* end with the duration.
C18_Witness ==
    /\ Converted
    /\ loopTrace[Len(loopTrace)].lastTime # duration
    /\ Len(loopTrace[Len(loopTrace)].out) > 1

\* C19: the output is strictly increasing.
C19_StrictlyIncreasing ==
    Converted =>
        \A i \in 1 .. Len(segmentStartTimes) - 1 :
            segmentStartTimes[i] < segmentStartTimes[i + 1]

\* What the loop appended for its k-th candidate.
Pushed(k) ==
    SubSeq(loopTrace[k + 1].out, Len(loopTrace[k].out) + 1, Len(loopTrace[k + 1].out))

\* [0, 3, 6, 9.5, 13, 16.5, 20, 22.75, 25.5, 28.25, 31] in quarters of a second.
ExampleQuarters == <<0, 12, 24, 38, 52, 66, 80, 91, 102, 113, 124>>

IsExample ==
    /\ rawTimeList = <<3 * Scale, 6 * Scale, 20 * Scale>>
    /\ duration = 31 * Scale
    /\ segmentLength = 7 * (Scale \div 2)
    /\ segmentOffset = 5 * (Scale \div 4)

\* C20: with span = t - lastTime for a candidate t, the loop appends t alone
\* when min <= span < max, nothing when span < min, and otherwise exactly
\* ceil(span / segmentLength) times of equal distance from lastTime, the last
\* of them t; and convertToSegments([3, 6, 20], 31) is
\* [0, 3, 6, 9.5, 13, 16.5, 20, 22.75, 25.5, 28.25, 31].
C20_CandidateRule ==
    Converted =>
        /\ \A k \in 1 .. Len(loopTrace) - 1 :
              LET t == Append(rawTimeList, duration)[k]
                  lastTime == loopTrace[k].lastTime
                  span == t - lastTime
                  pushed == Pushed(k)
                  n == Len(pushed)
              IN  /\ span < segmentLength - segmentOffset => pushed = <<>>
                  /\ (span >= segmentLength - segmentOffset
                        /\ span < segmentLength + segmentOffset) => pushed = <<t>>
                  /\ span >= segmentLength + segmentOffset =>
                        /\ (n - 1) * segmentLength < span
                        /\ span <= n * segmentLength
                        /\ pushed[n] = t
                        /\ \A i \in 1 .. n : n * (pushed[i] - lastTime) = i * span
        /\ IsExample =>
              segmentStartTimes = [i \in 1 .. 11 |-> ExampleQuarters[i] * (Scale \div 4)]

\* The call of the example, which has candidates of all three kinds.
C20_Witness == Converted /\ IsExample


\* ================================================ MediaBackend, further claims
\* The first segment client c misses in the run of recalculate of this step:
\* a handler sets heads and deleted flags before it calls recalculate and
\* marks no segment DONE.
FirstMissing(c) == FirstToEncode([segmentStatus |-> segmentStatus], clients'[c].head)

\* The step starts a run of recalculate and the run completes in it, with two
\* live clients whose first missing segments are f and f + 1.
RecalculatesForPair(c, d, f) ==
    /\ recalc.state = "idle"
    /\ recalcSettled'
    /\ LiveClients([clients |-> clients']) = {c, d}
    /\ f >= 0
    /\ FirstMissing(c) = f
    /\ FirstMissing(d) = f + 1

\* C21: a run of recalculate with two live clients whose first missing
\* segments are f and f + 1 and no encoder starts exactly one encoder, at f,
\* and attaches both clients to it; a run with that encoder at f, no output
\* of it and no change of the clients starts no encoder and kills none.
C21_OneEncoderForNeighbours ==
    [][\A c, d \in ClientIds, f \in Segments :
          /\ (RecalculatesForPair(c, d, f)
                 /\ \A p \in DOMAIN encoderHeads : p \notin DOMAIN encoderHeads') =>
                /\ nextPid' = nextPid + 1
                /\ DOMAIN encoderHeads' = {nextPid}
                /\ encoderHeads'[nextPid].head = f
                /\ clients'[c].transcoder = nextPid
                /\ clients'[d].transcoder = nextPid
          /\ (RecalculatesForPair(c, d, f)
                 /\ \E p \in Pids :
                       /\ DOMAIN encoderHeads = {p}
                       /\ encoderHeads[p].head = f
                       /\ ~process[p].killed
                       /\ p \in DOMAIN encoderHeads'
                 /\ \A x \in {c, d} : /\ x \in DOMAIN clients
                                      /\ clients'[x].head = clients[x].head) =>
                /\ nextPid' = nextPid
                /\ encoderHeads' = encoderHeads
                /\ process' = process]_vars

\* After one request of each client the only encoder has exited, and the run
\* of recalculate of the exit handler has started the second process for both
\* clients, which miss neighbouring segments.
C21_Witness ==
    /\ calls = 2
    /\ nextPid = 3
    /\ recalcSettled
    /\ DOMAIN encoderHeads = {2}
    /\ process[2].next = encoderHeads[2].head
    /\ \E c, d \in LiveClients(Current) :
          /\ clients[c].transcoder = 2
          /\ clients[d].transcoder = 2
          /\ FirstToEncode(Current, clients[c].head) = encoderHeads[2].head
          /\ FirstToEncode(Current, clients[d].head) = encoderHeads[2].head + 1

\* C22: a segment that is DONE stays DONE.
C22_DoneIsFinal ==
    [][\A i \in Segments : segmentStatus[i] = DONE => segmentStatus'[i] = DONE]_vars

\* A later process has printed a line that was not for its head, and its head
\* segment is DONE.
C22_Witness ==
    \E p \in DOMAIN encoderHeads :
        /\ p >= 2
        /\ process[p].next > encoderHeads[p].head + 1
        /\ segmentStatus[encoderHeads[p].head] = DONE

\* C27: a segment becomes DONE only from a state that carries the id of an
\* encoder, never directly from EMPTY.
C27_DoneOnlyFromEncoderId ==
    [][\A i \in Segments :
          (segmentStatus[i] # DONE /\ segmentStatus'[i] = DONE) =>
              segmentStatus[i] \in EncoderIds]_vars

\* C28: a segment that carries an encoder id carries the id of exactly one
\* encoder of encoderHeads, and the head of that encoder is the segment.
C28_IdMarksTheHead ==
    \A i \in Segments :
        segmentStatus[i] \in 2 .. 253 =>
            /\ Cardinality({p \in DOMAIN encoderHeads :
                              encoderHeads[p].id = segmentStatus[i]}) = 1
            /\ \A p \in DOMAIN encoderHeads :
                  encoderHeads[p].id = segmentStatus[i] => encoderHeads[p].head = i

\* Two encoders run, and each has its id on its head segment.
C28_Witness ==
    \E p, q \in DOMAIN encoderHeads :
        /\ p # q
        /\ segmentStatus[encoderHeads[p].head] = encoderHeads[p].id
        /\ segmentStatus[encoderHeads[q].head] = encoderHeads[q].id

\* C35: no assertion of startTranscode fails, in whatever state recalculate
\* calls it, and every process that has not exited is in encoderHeads for
\* its exit handler to find.
C35_AssertionsHold ==
    /\ asserted = {}
    /\ DOMAIN process = DOMAIN encoderHeads

\* ------------------------------------------------- the descriptor's destruct
\* VideoInfo.destruct, AudioInfo.destruct after the await of the backend's
\* destruct: fsExtra.remove(this.outDir).
RemoveOutDir ==
    /\ destruct.state = "done"
    /\ outDirRemoved = FALSE
    /\ outDirRemoved' = TRUE
    /\ UNCHANGED <<backendVars, lruVars, lruObservers, debounceVars, routerVars, segmentVars, mediaVars, manifestVars, dirVars, startVars, lineVars>>

\* The backend of a descriptor that is destructed at some moment.
NextDescriptor ==
    \/ Core
    \/ Destruct
    \/ RemoveOutDir

SpecDescriptor == Init /\ [][NextDescriptor]_vars

\* C34: the output directory is removed only when the destruct of the backend
\* has completed and no encoder of the backend is running.
C34_RemovedAfterEncodersExited ==
    [][(~outDirRemoved /\ outDirRemoved') =>
          (destruct.state = "done" /\ DOMAIN encoderHeads = {})]_vars

\* ------------------------------------------------ LruCacheMapForAsync, further
\* C32: when the construction n of a key is rejected, the key leaves the
\* cache if the cache holds n for it, so that the key is not cached and a get
\* constructs anew; a newer promise cached for the key stays, and so does
\* every other entry.
C32_RejectionUncachesOwnPromise ==
    [][\A n \in DOMAIN ctorRuns :
          (ctorRuns[n].state # "rejected" /\ ctorRuns'[n].state = "rejected") =>
              IF Cached(LruCurrent, ctorRuns[n].key) = n
              THEN cache' = SelectSeq(cache, LAMBDA x : x # n)
              ELSE cache' = cache]_vars

\* A construction was rejected while a newer one of its key was cached, and
\* the newer one is cached still.
C32_Witness ==
    \E n, later \in DOMAIN ctorRuns :
        /\ n < later
        /\ ctorRuns[n].key = ctorRuns[later].key
        /\ ctorRuns[n].state = "rejected"
        /\ Cached(LruCurrent, ctorRuns[n].key) = later

\* C33: the destructions map holds, for each key, no destruction that has
\* completed.
C33_OnlyDestructionsInFlight ==
    \A key \in LruKeys :
        destructions[key] # 0 => ~Settled(dtorRuns[destructions[key]].state)

\* ----------------------------------------------------- HlsVod router, further
\* C36: when the lookup a removeClient call awaits is settled and the client
\* has been given another lookup since, the client's entry with that other
\* lookup is in the tracker afterwards.
C36_RemoveClientKeepsNewerEntry ==
    [][\A r \in removing :
          (/\ lookups[r.on].state = "pending"
           /\ lookups'[r.on].state # "pending"
           /\ Tracked(r.client) \notin {0, r.on}) =>
              \E i \in 1 .. Len(clientTracker') :
                  clientTracker'[i] = [client |-> r.client, lookup |-> Tracked(r.client)]]_vars

\* C37: a call of getBackend or removeClient for a client whose stored lookup
\* has failed leaves no rejected promise unhandled.
C37_FailedLookupDoesNotPoison ==
    \A u \in unhandled : ~u.stored

\* ============================================= VideoInfo, AudioInfo (Part VI)
\* qualityLevelPresets after its sort (MediaBackend.ts 379-385), bitrates in kbps.
qualityLevelPresets ==
    <<[name |-> "1080p-extra", resolution |-> 1080, videoBitrate |-> 14400, audioBitrate |-> 320],
      [name |-> "1080p", resolution |-> 1080, videoBitrate |-> 9600, audioBitrate |-> 224],
      [name |-> "720p", resolution |-> 720, videoBitrate |-> 4800, audioBitrate |-> 160],
      [name |-> "480p", resolution |-> 480, videoBitrate |-> 2400, audioBitrate |-> 128],
      [name |-> "360p", resolution |-> 360, videoBitrate |-> 1200, audioBitrate |-> 112]>>

\* Its resolution is NaN in the code and is never read.
audioPreset == [name |-> "audio", resolution |-> 0, videoBitrate |-> 0, audioBitrate |-> 320]

\* The resolutions of the videos tried, and the quality names asked for.
Resolutions == {240, 360, 480, 720, 1080, 2160}
QualityNames == {qualityLevelPresets[i].name : i \in 1 .. 5} \cup {audioPreset.name}

\* The constructors: the presets of a video up to its resolution, or the last
\* preset when there is none (lines 418-433); the one backend of an audio.
NewQualityLevels(type, resolution) ==
    LET presets == SelectSeq(qualityLevelPresets, LAMBDA p : p.resolution <= resolution)
        used == IF presets = <<>> THEN <<qualityLevelPresets[Len(qualityLevelPresets)]>>
                ELSE presets
    IN  IF type = "V" THEN [i \in DOMAIN used |-> [preset |-> used[i], backend |-> 0]]
        ELSE <<[preset |-> audioPreset, backend |-> 1]>>

\* this.qualityLevels.get(qualityLevel): the place of the level, 0 for none.
LevelOf(qualityLevel) ==
    LET at == {i \in DOMAIN qualityLevels : qualityLevels[i].preset.name = qualityLevel}
    IN  IF at = {} THEN 0 ELSE Min(at)

\* getBackendByQualityLevel of VideoInfo (lines 456-465), which asserts that
\* the level exists and makes its backend on first use, and of AudioInfo
\* (part_001 39-46), which returns undefined for another name than 'audio'.
getBackendByQualityLevel(qualityLevel) ==
    LET i == LevelOf(qualityLevel)
        same == [levels |-> qualityLevels, made |-> backendsMade, kind |-> "backend", of |-> 0]
    IN  IF media.type = "V"
        THEN IF i = 0 THEN [same EXCEPT !.kind = "throws"]
             ELSE IF qualityLevels[i].backend = 0
             THEN [same EXCEPT !.levels = [qualityLevels EXCEPT ![i].backend = backendsMade + 1],
                               !.made = backendsMade + 1, !.of = backendsMade + 1]
             ELSE [same EXCEPT !.of = qualityLevels[i].backend]
        ELSE IF audioPreset.name = qualityLevel
        THEN [same EXCEPT !.of = qualityLevels[1].backend]
        ELSE [same EXCEPT !.kind = "undefined"]

\* The lookup of line 99, once the descriptor is there: the promise settles
\* with what getBackendByQualityLevel gives.
MediaLookupEnd(l) ==
    /\ l \in DOMAIN lookups
    /\ LET r == getBackendByQualityLevel(lookups[l].quality)
       IN  /\ LookupSettles(l, CASE r.kind = "backend" -> "fulfilled"
                                 [] r.kind = "throws" -> "rejected"
                                 [] OTHER -> "undefined")
           /\ qualityLevels' = r.levels
           /\ backendsMade' = r.made
           /\ returned' = [level |-> lookups[l].quality, kind |-> r.kind, of |-> r.of]
    /\ UNCHANGED <<media, masterManifest>>
    /\ UNCHANGED <<backendVars, lruVars, lruObservers, debounceVars, segmentVars, manifestVars, dirVars, startVars, lineVars, descriptorVars>>

\* Math.ceil(kbps * 1.05), the factor taken as the exact 105/100.
BandwidthOf(kbps) == (kbps * 105 + 99) \div 100

\* VideoInfo.getMasterManifest (lines 467-476): one stream entry per level.
getMasterManifest ==
    [i \in DOMAIN qualityLevels |->
        [name |-> qualityLevels[i].preset.name,
         bandwidth |-> BandwidthOf(qualityLevels[i].preset.videoBitrate
                                     + qualityLevels[i].preset.audioBitrate)]]

GetMasterManifest ==
    /\ media.type = "V"
    /\ masterManifest = <<>>
    /\ masterManifest' = getMasterManifest
    /\ UNCHANGED <<media, qualityLevels, backendsMade, returned>>
    /\ UNCHANGED <<backendVars, lruVars, lruObservers, debounceVars, routerVars, segmentVars, manifestVars, dirVars, startVars, lineVars, descriptorVars>>

InitMedia ==
    /\ PartsIdle /\ LineIdle
    /\ SegmentsIdle
    /\ ManifestIdle
    /\ media \in [type : {"V"}, resolution : Resolutions] \cup {[type |-> "A", resolution |-> 0]}
    /\ qualityLevels = NewQualityLevels(media.type, media.resolution)
    /\ backendsMade = IF media.type = "A" THEN 1 ELSE 0
    /\ returned = [level |-> "", kind |-> "", of |-> 0]
    /\ masterManifest = <<>>

NextMedia ==
    \/ \E c \in {"a", "b"}, q \in QualityNames : GetBackend(c, "f", q)
    \/ \E l \in 1 .. MaxLookups : MediaLookupEnd(l)
    \/ GetMasterManifest

SpecMedia == InitMedia /\ [][NextMedia]_vars

\* C23: the BANDWIDTH of every stream entry of the master manifest is
\* ceil((videoBitrate + audioBitrate) * 1.05 * 1000), the bitrates in kbps.
C23_BandwidthInBitsPerSecond ==
    \A i \in DOMAIN masterManifest :
        masterManifest[i].bandwidth =
            ((qualityLevels[i].preset.videoBitrate + qualityLevels[i].preset.audioBitrate)
                * 105 * 1000 + 99) \div 100

\* C24: a lookup for a quality name that is not a level of the descriptor
\* gives no backend and leaves no entry of the client in the tracker; a
\* lookup for a level gives the one backend of the level.
C24_UnknownQualityFails ==
    /\ \A l \in DOMAIN lookups :
          (lookups[l].state # "pending" /\ LevelOf(lookups[l].quality) = 0) =>
              /\ lookups[l].state # "fulfilled"
              /\ \A i \in DOMAIN clientTracker : clientTracker[i].lookup # l
    /\ \A l \in DOMAIN lookups :
          (lookups[l].state # "pending" /\ LevelOf(lookups[l].quality) # 0) =>
              lookups[l].state = "fulfilled"
    /\ returned.kind = "backend" =>
          qualityLevels[LevelOf(returned.level)].backend = returned.of
    /\ \A i, j \in DOMAIN qualityLevels :
          (i # j /\ qualityLevels[i].backend # 0) =>
              qualityLevels[i].backend # qualityLevels[j].backend

\* ================================== getVariantManifest, getSegment (Part VII)
\* The numbers of segments tried: around one, two and three hexadecimal digits.
ManifestLengths == {1, 2, 15, 16, 17, 255, 256, 257}

HexDigits == <<"0", "1", "2", "3", "4", "5", "6", "7", "8", "9", "a", "b", "c", "d", "e", "f">>

\* i.toString(16) for i >= 0, as the sequence of its characters.
RECURSIVE toString16(_)
toString16(i) ==
    IF i < 16 THEN <<HexDigits[i + 1]>>
    ELSE toString16(i \div 16) \o <<HexDigits[(i % 16) + 1]>>

\* The value of a character as a hexadecimal digit in either case, -1 for
\* any other character.
DigitValue(ch) ==
    LET lower == {d \in 1 .. 16 : HexDigits[d] = ch}
        upper == {d \in 11 .. 16 : <<"A", "B", "C", "D", "E", "F">>[d - 10] = ch}
    IN  IF lower \cup upper = {} THEN -1 ELSE Min(lower \cup upper) - 1

\* parseInt(str, 16) for a string without sign, prefix or blanks: the value of
\* its longest prefix of digits read from position k on with value acc so
\* far, -1 (NaN) when there is no digit.
RECURSIVE parseInt16(_, _, _)
parseInt16(str, k, acc) ==
    IF k > Len(str) \/ DigitValue(str[k]) < 0 THEN (IF k = 1 THEN -1 ELSE acc)
    ELSE parseInt16(str, k + 1, acc * 16 + DigitValue(str[k]))

\* A fault: the URLs are numbered from 0.
getVariantManifest_FromZero(n) == [i \in 1 .. n |-> toString16(i - 1)]

\* getVariantManifest (lines 276-295): the index strings of its segment URLs,
\* `${qualityLevelName}.${i.toString(16)}.ts` for i = 1 .. breakpoints.length - 1.
getVariantManifest(n) == [i \in 1 .. n |-> toString16(i)]

GetVariantManifest ==
    /\ variantManifest = <<>>
    /\ variantManifest' = getVariantManifest(manifestSegments)
    /\ UNCHANGED <<manifestSegments, parsed>>
    /\ UNCHANGED <<backendVars, lruVars, lruObservers, debounceVars, routerVars, segmentVars, mediaVars, dirVars, startVars, lineVars, descriptorVars>>

\* getSegment, lines 307-308, for the k-th URL of the manifest.
GetSegmentOfUrl(k) ==
    /\ k \in DOMAIN variantManifest
    /\ LET number == parseInt16(variantManifest[k], 1, 0)
           segmentIndex == number - 1
       IN  parsed' = [url |-> k, segmentIndex |-> segmentIndex,
                      inRange |-> number # -1 /\ segmentIndex >= 0
                                     /\ segmentIndex < manifestSegments]
    /\ UNCHANGED <<manifestSegments, variantManifest>>
    /\ UNCHANGED <<backendVars, lruVars, lruObservers, debounceVars, routerVars, segmentVars, mediaVars, dirVars, startVars, lineVars, descriptorVars>>

InitManifest ==
    /\ PartsIdle /\ LineIdle
    /\ SegmentsIdle
    /\ MediaIdle
    /\ manifestSegments \in ManifestLengths
    /\ variantManifest = <<>>
    /\ parsed = [url |-> 0, segmentIndex |-> -1, inRange |-> FALSE]

NextManifest ==
    \/ GetVariantManifest
    \/ \E k \in 1 .. 257 : GetSegmentOfUrl(k)

SpecManifest == InitManifest /\ [][NextManifest]_vars

\* C25: the manifest of a backend with N segments has N segment URLs, the
\* k-th with the index string of k in hexadecimal, all different; getSegment
\* makes of the k-th the segment index k - 1, which is in 0 .. N - 1.
C25_UrlsAddressAllSegments ==
    variantManifest # <<>> =>
        /\ Len(variantManifest) = manifestSegments
        /\ \A k \in DOMAIN variantManifest :
              /\ \A d \in DOMAIN variantManifest[k] : DigitValue(variantManifest[k][d]) >= 0
              /\ \A j \in DOMAIN variantManifest :
                    j # k => variantManifest[j] # variantManifest[k]
        /\ parsed.url # 0 =>
              /\ parsed.segmentIndex = parsed.url - 1
              /\ parsed.inRange

\* The last URL of a manifest of 256 segments, "100", was asked for.
C25_Witness ==
    /\ manifestSegments = 256
    /\ parsed.url = 256
    /\ variantManifest[256] = <<"1", "0", "0">>

\* ================================================ output directories (Part VIII)
\* The keys of cachedMedia: type + relPath (HlsVod.ts 46-48, 240).
MediaKeys == [type : {"V", "A"}, relPath : {"a", "b", "c"}]

\* createOutDir (MediaInfo.ts 15-20): the directory named by the md5 of the
\* disk path of relPath.  The hash is taken to have no collisions, and the
\* relPaths tried to be different disk paths.
createOutDir(relPath) == <<"md5", relPath>>

\* VideoInfo.getInstance, AudioInfo.getInstance: the constructor run of
\* cachedMedia for a key that is not cached.
GetInstance(key) ==
    /\ key \notin DOMAIN descriptors
    /\ descriptors' = (key :> createOutDir(key.relPath)) @@ descriptors
    /\ UNCHANGED disk
    /\ UNCHANGED <<backendVars, lruVars, lruObservers, debounceVars, routerVars, segmentVars, mediaVars, manifestVars, startVars, lineVars, descriptorVars>>

\* An encoder of a backend of the descriptor writes a segment file: ffmpeg
\* runs with cwd outDir (MediaBackend.ts 128-129).
WriteSegment(key) ==
    /\ key \in DOMAIN descriptors
    /\ disk' = disk \cup {[dir |-> descriptors[key], by |-> key]}
    /\ UNCHANGED descriptors
    /\ UNCHANGED <<backendVars, lruVars, lruObservers, debounceVars, routerVars, segmentVars, mediaVars, manifestVars, startVars, lineVars, descriptorVars>>

\* destruct of the descriptor (MediaBackend.ts 478-485, part_001 68-71):
\* fsExtra.remove(this.outDir).
DestructMedia(key) ==
    /\ key \in DOMAIN descriptors
    /\ disk' = {f \in disk : f.dir # descriptors[key]}
    /\ descriptors' = Without(descriptors, key)
    /\ UNCHANGED <<backendVars, lruVars, lruObservers, debounceVars, routerVars, segmentVars, mediaVars, manifestVars, startVars, lineVars, descriptorVars>>

NextDirs ==
    \/ \E key \in MediaKeys : GetInstance(key)
    \/ \E key \in MediaKeys : WriteSegment(key)
    \/ \E key \in MediaKeys : DestructMedia(key)

SpecDirs == Init /\ [][NextDirs]_vars

\* C26: two live descriptors with different keys have different output
\* directories.
C26_OneDirectoryPerDescriptor ==
    \A j, k \in DOMAIN descriptors : j # k => descriptors[j] # descriptors[k]

\* ==================================================== startTranscode (Part IX)
\* The lengths of the backends tried: breakpoints.length - 1.
StartLengths == {1, 2, 4, 513, 600}

\* The sets of encoder ids in use when the call is made.
UsedIdSets ==
    {{}, {2}, {3}, {253}, {2, 3}, 2 .. 127, 2 .. 252, 3 .. 253, 2 .. 253,
     (2 .. 253) \ {128}, (2 .. 253) \ {2, 253}, {i \in 2 .. 253 : i % 2 = 0}}

\* lastAssignedId is 1 until the first id is assigned (line 46), and the last
\* id assigned from then on.
\* mark: the id that is still on the head segment of its encoder, or 0.
IdCases ==
    {[n |-> NumSegments, done |-> {3}, ids |-> ids, last |-> last, startAt |-> 0,
      mark |-> IF ids = {} THEN 0 ELSE Min(ids)] :
        <<ids, last>> \in {x \in UsedIdSets \X {1, 2, 3, 127, 128, 252, 253} :
                              x[2] = 1 => x[1] = {}}}

\* The backends with DONE segments only: startAt and the DONE segments.
RangeCases ==
    UNION {UNION {{[n |-> n, done |-> {t, n - 1} \ {s}, ids |-> {}, mark |-> 0, last |-> 2, startAt |-> s]
                     : t \in {s + 1, s + 2, s + 511, s + 512, s + 513, s + 519, n - 2, n - 1}
                             \cap ((s + 1) .. (n - 1))}
                  \cup {[n |-> n, done |-> {}, ids |-> {}, mark |-> 0, last |-> 2, startAt |-> s]}
                  : s \in {0, 1, 80} \cap (0 .. (n - 1))}
           : n \in StartLengths}

\* segmentStatus of the case: the DONE segments, and the marking id on
\* segment 1, the head of its encoder.
CaseStatus(c) ==
    [i \in 0 .. (c.n - 1) |->
        IF i \in c.done THEN DONE
        ELSE IF i = 1 /\ c.mark # 0 THEN c.mark
        ELSE EMPTY]

\* The backend of the case: one encoder for each id in use, the process of id
\* k being process k; the others have moved their heads on to segment 2.
CaseState(c) ==
    [Current EXCEPT
        !.segmentStatus = CaseStatus(c),
        !.encoderHeads = [p \in c.ids |-> [head |-> IF p = c.mark THEN 1 ELSE 2, id |-> p]],
        !.process = [p \in c.ids |-> [endAt |-> c.n, next |-> 2, killed |-> TRUE]],
        !.lastAssignedId = c.last,
        !.nextPid = 254]

\* startTranscode(startCase.startAt).
StartTranscode ==
    /\ ~transcode.called
    /\ LET st == startTranscode(CaseState(startCase), startCase.startAt)
       IN  transcode' =
              IF st.threw THEN [NotStarted EXCEPT !.called = TRUE, !.threw = TRUE]
              ELSE [called |-> TRUE, threw |-> FALSE,
                    id |-> st.encoderHeads[254].id,
                    endAt |-> st.process[254].endAt,
                    written |-> {st.segmentStatus[i] : i \in DOMAIN st.segmentStatus}]
    /\ UNCHANGED startCase
    /\ UNCHANGED <<backendVars, lruVars, lruObservers, debounceVars, routerVars, segmentVars, mediaVars, manifestVars, dirVars, lineVars, descriptorVars>>

InitStart ==
    /\ outDirRemoved = FALSE
    /\ BackendInit /\ LruInit /\ OtherInit /\ DebounceInit /\ RouterInit
    /\ DirsIdle /\ SegmentsIdle /\ MediaIdle /\ ManifestIdle /\ LineIdle
    /\ startCase \in IdCases \cup RangeCases
    /\ transcode = NotStarted

SpecStart == InitStart /\ [][StartTranscode]_vars

\* C29: the id given is in 2 .. 253 and is the id of no segment and of no
\* encoder; the call fails for want of an id only when all 252 ids are in
\* use; neither 1 nor 254 is ever in segmentStatus.
C29_IdIsFreeAndInRange ==
    transcode.called =>
        /\ ~transcode.threw =>
              /\ transcode.id \in 2 .. 253
              /\ transcode.id \notin startCase.ids
              /\ \A i \in 0 .. (startCase.n - 1) : CaseStatus(startCase)[i] # transcode.id
        /\ transcode.threw <=> startCase.ids = 2 .. 253
        /\ 1 \notin transcode.written /\ 254 \notin transcode.written

\* An id was found with all ids but one in use, and none with all in use.
C29_Witness ==
    /\ transcode.called
    /\ \/ Cardinality(startCase.ids) = 251 /\ ~transcode.threw
       \/ Cardinality(startCase.ids) = 252 /\ transcode.threw

\* C30: the end index of a transcode started at s on N segments is above s,
\* at most min(N, s + 512), and at most the first segment after s that is
\* not EMPTY.
C30_EndAtWithinCapAndFirstTaken ==
    (transcode.called /\ ~transcode.threw) =>
        /\ startCase.startAt < transcode.endAt
        /\ transcode.endAt <= Min({startCase.n, startCase.startAt + 512})
        /\ \A i \in (startCase.startAt + 1) .. (startCase.n - 1) :
              CaseStatus(startCase)[i] # EMPTY => transcode.endAt <= i

\* ================================================ the line handler (Part X)
\* The length of the backend of the cases: breakpoints.length - 1.
LineSegments == 8

\* The clients of a case: a may be attached to the encoder (process 1) or to
\* none, b to the encoder or to the one ahead (process 2).
LineClients(i) ==
    LET as == {<<>>} \cup {"a" :> [head |-> h, transcoder |-> t, deleted |-> FALSE] :
                             h \in {0, i} \cup ({i - 3, i - 2} \cap Nat), t \in {1, NoProcess}}
        bs == {<<>>, "b" :> [head |-> 0, transcoder |-> 1, deleted |-> FALSE],
                     "b" :> [head |-> i + 1, transcoder |-> 2, deleted |-> FALSE]}
    IN  {a @@ b : a \in as, b \in bs}

\* An encoder with id 2 that was started at segment 0 prints segment index.
\* Its head is index or, the output having drifted, index - 1; the head has
\* the id when it is the start segment (line 134), the segments before it
\* are DONE, and the segment after index is EMPTY, DONE or the head of the
\* encoder with id 3.
LineCases ==
    UNION {{[status |-> [k \in 0 .. (LineSegments - 1) |->
                           IF k < head THEN DONE
                           ELSE IF k = head /\ head = 0 THEN 2
                           ELSE IF k = i + 1 THEN after
                           ELSE EMPTY],
             head |-> head, endAt |-> endAt, index |-> i, clients |-> cs] :
              head \in {i - 1, i} \cap Nat,
              endAt \in {i + 1, i + 2, LineSegments} \cap ((i + 1) .. LineSegments),
              after \in {EMPTY, DONE, 3},
              cs \in LineClients(i)}
           : i \in 0 .. (LineSegments - 2)}

LineState(c) ==
    [Current EXCEPT
        !.segmentStatus = c.status,
        !.encoderHeads = (1 :> [head |-> c.head, id |-> 2]) @@
                         (IF c.status[c.index + 1] = 3
                          THEN 2 :> [head |-> c.index + 1, id |-> 3] ELSE <<>>),
        !.process = (1 :> [endAt |-> c.endAt, next |-> c.index, killed |-> FALSE]) @@
                    (IF c.status[c.index + 1] = 3
                     THEN 2 :> [endAt |-> LineSegments, next |-> c.index + 1, killed |-> FALSE]
                     ELSE <<>>),
        !.clients = c.clients,
        !.lastAssignedId = 3,
        !.nextPid = 3]

\* The 'line' handler of the encoder (lines 152-189).
HandleLine ==
    /\ ~lineDone.handled
    /\ LET st == LineBody(LineState(lineCase), 1, lineCase.index)
       IN  lineDone' = [handled |-> TRUE, status |-> st.segmentStatus,
                        head |-> st.encoderHeads[1].head, killed |-> st.process[1].killed]
    /\ UNCHANGED lineCase
    /\ UNCHANGED <<backendVars, lruVars, lruObservers, debounceVars, routerVars, segmentVars, mediaVars, manifestVars, dirVars, startVars, descriptorVars>>

InitLine ==
    /\ PartsIdle
    /\ SegmentsIdle /\ MediaIdle /\ ManifestIdle
    /\ lineCase \in LineCases
    /\ lineDone = NotHandled

SpecLine == InitLine /\ [][HandleLine]_vars

\* A client attached to the encoder of the case has less than
\* videoMaxBufferLength buffered up to the segment after the one printed.
NeedsMore ==
    \E c \in DOMAIN lineCase.clients :
        /\ lineCase.clients[c].transcoder = 1
        /\ breakpoints(lineCase.index + 1) - breakpoints(lineCase.clients[c].head)
              < videoMaxBufferLength

\* C31: when an encoder has printed segment i < endAt - 1, it is killed if
\* segmentStatus[i + 1] is not EMPTY; otherwise its head moves to i + 1 if a
\* client attached to it has less than videoMaxBufferLength buffered up to
\* i + 1, and it is killed, its head left alone, if none has.
C31_ContinueOrKill ==
    (lineDone.handled /\ lineCase.index < lineCase.endAt - 1) =>
        IF lineDone.status[lineCase.index + 1] # EMPTY \/ ~NeedsMore
        THEN lineDone.killed /\ lineDone.head = lineCase.head
        ELSE ~lineDone.killed /\ lineDone.head = lineCase.index + 1

\* The encoder was killed with a client attached that has buffered enough.
C31_Witness ==
    /\ lineDone.handled
    /\ lineCase.index < lineCase.endAt - 1
    /\ lineDone.status[lineCase.index + 1] = EMPTY
    /\ \E c \in DOMAIN lineCase.clients : lineCase.clients[c].transcoder = 1
    /\ lineDone.killed

====
